---- MODULE Spec2Model ----
(***************************************************************************)
(* Model of the decoding core of the Corrosiff `.siff` reader:             *)
(*   - the frame dispatchers (seek to strip, dispatch on the Siff tag,     *)
(*     restore the reader),                                                *)
(*   - the photon kernels for RAW and COMPRESSED strips,                   *)
(*   - the request methods of SiffReader built on them.                    *)
(*                                                                         *)
(* A frame is described at word level.  A frame's photon stream is a       *)
(* sequence of photons [y, x, tau].  For a RAW frame the strip is this     *)
(* sequence of 64-bit words.  For a COMPRESSED frame the intensity slab    *)
(* (h*w u16 counts, stored just before the strip offset) and the arrival   *)
(* slab (u16 tau values in pixel scan order, stored at the strip offset)   *)
(* are derived from it.                                                    *)
(***************************************************************************)
EXTENDS Integers, Sequences, FiniteSets, TLC

(***************************************************************************)
(* Bounds of the model                                                     *)
(***************************************************************************)
\* frame height and width (every frame of a file has these dimensions)
FrameH == 2
FrameW == 3
\* photons per frame
MaxPhotons == 2
\* number of arrival-time bins of the instrument; photon streams carry tau
\* values 0..NumTauBins, so the largest one lies outside the histogram
NumTauBins == 2
\* registration shifts are drawn from -MaxShift..MaxShift in y and in x
MaxShift == 1
\* number of frames of a multi-frame file
NumFrames == 2
\* longest frame list of a request
MaxReq == 2
\* a dispatcher is entered with the reader at 0..MaxStart or at the strip
MaxStart == 1
\* frames per chunk of the parallel driver (2500 in the program; scaled down
\* so that a request spans several chunks)
ChunkSize == 3
\* planes of a volumetric mask
MaxPlanes == 2
\* arguments after the program name on a converter command line
MaxArgs == 3
\* directories that a file holds; they lie at the offsets 1..NumDirs
NumDirs == 3

(***************************************************************************)
(* Program constants                                                       *)
(***************************************************************************)
\* Siff tag values
RAW == 0
COMPRESSED == 1
\* size of a photon word (u64) and of a u16, in bytes
PhotonBytes == 8
U16Bytes == 2
\* u16 counters wrap at 2^16
U16Mod == 65536
\* width of usize
UsizeBits == 64

\* a Siff tag value that names no format
InvalidTag == COMPRESSED + 1
\* a frame without a Siff tag (a plain tiff frame): get_tag(Siff) is None
NoTag == RAW - 1
Null == "null"

Pixels == (0..(FrameH - 1)) \X (0..(FrameW - 1))
NumPixels == FrameH * FrameW
\* row-major (scan order) index of a pixel
PxIndex(px) == px[1] * FrameW + px[2]

ZeroImage == [px \in Pixels |-> 0]

RECURSIVE SumOver(_, _)
SumOver(f, S) ==
    IF S = {} THEN 0
    ELSE LET e == CHOOSE e \in S : TRUE
         IN  f[e] + SumOver(f, S \ {e})

RECURSIVE SeqSum(_)
SeqSum(s) == IF s = <<>> THEN 0 ELSE s[1] + SeqSum(Tail(s))

Max(a, b) == IF a < b THEN b ELSE a
Min(a, b) == IF a <= b THEN a ELSE b

(***************************************************************************)
(* Frames.  photons is the frame's photon stream in scan order; slack is   *)
(* the number of bytes by which StripByteCounts exceeds the photon data;   *)
(* trunc says that the file ends one byte before the end of the strip.     *)
(***************************************************************************)
Taus == 0..NumTauBins

PixelStreams ==
    {s \in UNION {[1..n -> Pixels] : n \in 0..MaxPhotons} :
        \A i \in 1..(Len(s) - 1) : PxIndex(s[i]) <= PxIndex(s[i + 1])}

\* the photons at the pixels ps, with tau values t0, t0 + 1, ... (cyclically)
Stream(ps, t0) ==
    [i \in 1..Len(ps) |->
        [y |-> ps[i][1], x |-> ps[i][2], tau |-> (t0 + i - 1) % (NumTauBins + 1)]]

PhotonStreams == {Stream(ps, t0) : ps \in PixelStreams, t0 \in Taus}

\* streams whose photons all lie in one pixel
OnePixelStreams ==
    {Stream(ps, 0) : ps \in {q \in PixelStreams : \A i \in DOMAIN q : q[i] = q[1]}}

\* well-formed frames
Frames == [tag : {RAW, COMPRESSED}, photons : PhotonStreams,
           slack : {0}, trunc : {FALSE}]

\* frames as a dispatcher can meet them, damaged ones included
\* a negative slack is a COMPRESSED strip that holds fewer arrival words than
\* the counts in front of it add up to
DispatchFrames ==
    {fr \in [tag : {RAW, COMPRESSED, InvalidTag, NoTag}, photons : OnePixelStreams,
             slack : {-U16Bytes, 0, 1}, trunc : BOOLEAN] :
        fr.slack < 0 => (fr.tag = COMPRESSED /\ Len(fr.photons) > 0)}

Shifts == (-MaxShift..MaxShift) \X (-MaxShift..MaxShift)

\* the strip follows the header bytes 0..MaxStart and the intensity slab
StripOffsets == MaxStart + 1 + NumPixels * U16Bytes

WordBytes(tag) == IF tag = COMPRESSED THEN U16Bytes ELSE PhotonBytes

StripByteCounts(fr) == WordBytes(fr.tag) * Len(fr.photons) + fr.slack

FileLen(fr) == StripOffsets + StripByteCounts(fr) - (IF fr.trunc THEN 1 ELSE 0)

\* the u16 counts stored in front of a COMPRESSED strip
IntensitySlab(fr) ==
    [px \in Pixels |->
        Cardinality({i \in DOMAIN fr.photons :
                        <<fr.photons[i].y, fr.photons[i].x>> = px})]

\* the u16 arrival times stored in a COMPRESSED strip
ArrivalSlab(fr) ==
    [i \in 1..Min(Len(fr.photons), StripByteCounts(fr) \div U16Bytes) |->
        fr.photons[i].tau]

(***************************************************************************)
(* Reader primitives                                                       *)
(***************************************************************************)
\* Read::read_exact of n bytes at pos
read_exact(fr, pos, n) ==
    LET ok == (n = 0) \/ (pos + n <= FileLen(fr))
    IN  [ok |-> ok, pos |-> IF ok THEN pos + n ELSE Max(pos, FileLen(fr))]

\* bytemuck::try_cast_slice of nbytes bytes to elements of size bytes
try_cast_slice(nbytes, size) == nbytes % size = 0

KOk(pos, out) == [st |-> "Ok", pos |-> pos, out |-> out]
KErr(pos) == [st |-> "Err", pos |-> pos, out |-> Null]
KPanic(pos) == [st |-> "Panic", pos |-> pos, out |-> Null]

(***************************************************************************)
(* Intensity kernels of data/image/intensity/siff.rs.  A kernel is entered *)
(* with the reader at pos and a zeroed array; it yields the status, the    *)
(* reader's position when it returns, and the array.                       *)
(***************************************************************************)
RECURSIVE Pow2Mod(_, _)
Pow2Mod(k, d) == IF k = 0 THEN 1 % d ELSE (2 * Pow2Mod(k - 1, d)) % d

UsizeWrap == [d \in 1..Max(FrameH, FrameW) |-> Pow2Mod(UsizeBits, d)]

\* (v as usize) % d for a signed 32-bit v
AsUsizeMod(v, d) == IF v >= 0 THEN v % d ELSE (UsizeWrap[d] + (v % d)) % d

\* photon_to_y!(photon, shift) % ydim and photon_to_x!(photon, shift) % xdim
siff_photon_to_y(p, shift, ydim) == AsUsizeMod(p.y + shift, ydim)
siff_photon_to_x(p, shift, xdim) == AsUsizeMod(p.x + shift, xdim)

\* array[idx] += 1 for every index of idxs, in order
RECURSIVE IncrementAll(_, _)
IncrementAll(array, idxs) ==
    IF idxs = <<>> THEN array
    ELSE IncrementAll([array EXCEPT ![idxs[1]] = (@ + 1) % U16Mod], Tail(idxs))

load_array_raw_siff(fr, pos) ==
    LET n  == StripByteCounts(fr)
        rd == read_exact(fr, pos, n)
    IN  IF ~rd.ok THEN KErr(rd.pos)
        ELSE IF ~try_cast_slice(n, PhotonBytes) THEN KErr(rd.pos)
        ELSE KOk(rd.pos,
                 IncrementAll(ZeroImage,
                     [i \in DOMAIN fr.photons |->
                         <<fr.photons[i].y % FrameH, fr.photons[i].x % FrameW>>]))

load_array_raw_siff_registered(fr, pos, registration) ==
    LET n  == StripByteCounts(fr)
        rd == read_exact(fr, pos, n)
    IN  IF ~rd.ok THEN KErr(rd.pos)
        ELSE IF ~try_cast_slice(n, PhotonBytes) THEN KErr(rd.pos)
        ELSE KOk(rd.pos,
                 IncrementAll(ZeroImage,
                     [i \in DOMAIN fr.photons |->
                         <<siff_photon_to_y(fr.photons[i], registration[1], FrameH),
                           siff_photon_to_x(fr.photons[i], registration[2], FrameW)>>]))

\* seek back over the intensity slab and read it
ReadIntensitySlab(fr, pos) ==
    LET n    == NumPixels * U16Bytes
        back == pos - n
        rd   == read_exact(fr, back, n)
    IN  IF back < 0 THEN KErr(pos)
        ELSE IF ~rd.ok THEN KErr(rd.pos)
        ELSE IF ~try_cast_slice(n, U16Bytes) THEN KErr(rd.pos)
        ELSE KOk(rd.pos, IntensitySlab(fr))

load_array_compressed_siff(fr, pos) == ReadIntensitySlab(fr, pos)

\* ndarray slices: a negative index counts from the end of the axis; an
\* index outside 0..n panics; an end before the start is the start
SliceIndex(i, n) == IF i < 0 THEN i + n ELSE i

Slice(start, end, n) ==
    LET lo == SliceIndex(start, n)
        hi == SliceIndex(end, n)
    IN  [ok |-> lo \in 0..n /\ hi \in 0..n, lo |-> lo,
         hi |-> IF hi < lo THEN lo ELSE hi]

SliceFrom(start, n) == Slice(start, n, n)
SliceTo(end, n) == Slice(0, end, n)
SliceAll(n) == Slice(0, n, n)

\* array.slice_mut(s![dy, dx]).assign(&src.slice(s![sy, sx]))
SliceAssignOk(dy, dx, sy, sx) ==
    /\ dy.ok /\ dx.ok /\ sy.ok /\ sx.ok
    /\ dy.hi - dy.lo = sy.hi - sy.lo
    /\ dx.hi - dx.lo = sx.hi - sx.lo

SliceAssign(array, dy, dx, src, sy, sx) ==
    [px \in Pixels |->
        IF px[1] \in dy.lo..(dy.hi - 1) /\ px[2] \in dx.lo..(dx.hi - 1)
        THEN src[<<sy.lo + px[1] - dy.lo, sx.lo + px[2] - dx.lo>>]
        ELSE array[px]]

\* the two slice assignments of one arm of the match on the registration
TwoSliceAssigns(pos, unregistered, dy1, dx1, sy1, sx1, dy2, dx2, sy2, sx2) ==
    IF ~SliceAssignOk(dy1, dx1, sy1, sx1) \/ ~SliceAssignOk(dy2, dx2, sy2, sx2)
    THEN KPanic(pos)
    ELSE KOk(pos, SliceAssign(SliceAssign(ZeroImage, dy1, dx1, unregistered, sy1, sx1),
                              dy2, dx2, unregistered, sy2, sx2))

\* load_array_compressed_siff_registered without the arms for a zero shift
load_array_compressed_siff_registered_one_arm(fr, pos, registration) ==
    LET rd == ReadIntensitySlab(fr, pos)
        y_shift == registration[1]
        x_shift == registration[2]
        h == FrameH
        w == FrameW
    IN  IF rd.st # "Ok" THEN rd
        ELSE
            TwoSliceAssigns(rd.pos, rd.out,
                SliceFrom(y_shift, h), SliceFrom(x_shift, w),
                SliceTo(-y_shift, h), SliceTo(-x_shift, w),
                SliceTo(y_shift, h), SliceTo(x_shift, w),
                SliceFrom(-y_shift, h), SliceFrom(-x_shift, w))

load_array_compressed_siff_registered(fr, pos, registration) ==
    LET rd == ReadIntensitySlab(fr, pos)
        y_shift == registration[1]
        x_shift == registration[2]
        h == FrameH
        w == FrameW
    IN  IF rd.st # "Ok" THEN rd
        ELSE IF y_shift = 0 /\ x_shift = 0 THEN rd
        ELSE IF y_shift = 0 THEN
            TwoSliceAssigns(rd.pos, rd.out,
                SliceAll(h), SliceFrom(x_shift, w), SliceAll(h), SliceTo(-x_shift, w),
                SliceAll(h), SliceTo(x_shift, w), SliceAll(h), SliceFrom(-x_shift, w))
        ELSE IF x_shift = 0 THEN
            TwoSliceAssigns(rd.pos, rd.out,
                SliceFrom(y_shift, h), SliceAll(w), SliceTo(-y_shift, h), SliceAll(w),
                SliceTo(y_shift, h), SliceAll(w), SliceFrom(-y_shift, h), SliceAll(w))
        ELSE
            TwoSliceAssigns(rd.pos, rd.out,
                SliceFrom(y_shift, h), SliceFrom(x_shift, w),
                SliceTo(-y_shift, h), SliceTo(-x_shift, w),
                SliceTo(y_shift, h), SliceTo(x_shift, w),
                SliceFrom(-y_shift, h), SliceFrom(-x_shift, w))

(***************************************************************************)
(* Frame dispatchers of data/image/intensity/siff.rs: entered with the     *)
(* reader at pos, they seek to the strip and dispatch on the Siff tag.     *)
(* get_tag(Siff).unwrap() panics on a frame that has no Siff tag.          *)
(***************************************************************************)
\* the `?` after map_err returns the error with the reader where it is
load_array(fr, pos) ==
    LET k == IF fr.tag = NoTag THEN KPanic(StripOffsets)
             ELSE IF fr.tag = RAW THEN load_array_raw_siff(fr, StripOffsets)
             ELSE IF fr.tag = COMPRESSED THEN load_array_compressed_siff(fr, StripOffsets)
             ELSE KErr(StripOffsets)
    IN  IF k.st = "Ok" THEN KOk(pos, k.out) ELSE k

\* map_err seeks back to pos before the error is returned
load_array_registered(fr, pos, registration) ==
    LET k == IF fr.tag = NoTag THEN KPanic(StripOffsets)
             ELSE IF fr.tag = RAW
             THEN load_array_raw_siff_registered(fr, StripOffsets, registration)
             ELSE IF fr.tag = COMPRESSED
             THEN load_array_compressed_siff_registered(fr, StripOffsets, registration)
             ELSE KErr(StripOffsets)
    IN  IF k.st = "Ok" THEN KOk(pos, k.out)
        ELSE IF k.st = "Err" THEN KErr(pos)
        ELSE k

(***************************************************************************)
(* Helpers of data/image/dimensions that the kernels below call            *)
(***************************************************************************)
\* photon_to_y!(photon, shift, ydim) and photon_to_x!(photon, shift, xdim)
photon_to_y(p, shift, ydim) == (p.y + shift) % ydim
photon_to_x(p, shift, xdim) == (p.x + shift) % xdim

\* roll: the array shifted cyclically by shift along y and x
roll(array, shift) ==
    [px \in Pixels |->
        array[<<(px[1] - shift[1]) % FrameH, (px[2] - shift[2]) % FrameW>>]]

roll_inplace(array, shift) == roll(array, shift)

\* a photonwise_op! that stops after the first photon word
photonwise_op_first_word(fr, pos) ==
    LET n  == StripByteCounts(fr)
        rd == read_exact(fr, pos, n)
    IN  IF ~rd.ok THEN KErr(rd.pos)
        ELSE KOk(rd.pos, SubSeq(fr.photons, 1, Min(1, n \div PhotonBytes)))

\* photonwise_op!: read the strip and visit its whole photon words
photonwise_op(fr, pos) ==
    LET n  == StripByteCounts(fr)
        rd == read_exact(fr, pos, n)
    IN  IF ~rd.ok THEN KErr(rd.pos)
        ELSE KOk(rd.pos, SubSeq(fr.photons, 1, n \div PhotonBytes))

\* read the arrival slab of a COMPRESSED strip as u16 values
ReadArrivalSlab(fr, pos) ==
    LET n  == StripByteCounts(fr)
        rd == read_exact(fr, pos, n)
    IN  IF ~rd.ok THEN KErr(rd.pos)
        ELSE IF ~try_cast_slice(n, U16Bytes) THEN KErr(rd.pos)
        ELSE KOk(rd.pos, ArrivalSlab(fr))

\* arrival_time_pointer when the scan reaches pixel px
ArrivalPointer(intensity, px) ==
    SumOver(intensity, {q \in Pixels : PxIndex(q) < PxIndex(px)})

\* arrival_times[pointer .. pointer + intensity] of every pixel is in range
ArrivalsInRange(intensity, arrival_times) ==
    \A px \in Pixels :
        intensity[px] = 0 \/ ArrivalPointer(intensity, px) + intensity[px] <= Len(arrival_times)

PixelArrivals(intensity, arrival_times, px) ==
    SubSeq(arrival_times, ArrivalPointer(intensity, px) + 1,
           ArrivalPointer(intensity, px) + intensity[px])

(***************************************************************************)
(* Arrival-time histogram: data/image/flim/histogram.rs                    *)
(***************************************************************************)
ZeroHistogram == [t \in 0..(NumTauBins - 1) |-> 0]

\* histogram[t] += 1 for every t of taus that passes the guard
RECURSIVE IncrementBins(_, _, _)
IncrementBins(histogram, taus, len) ==
    IF taus = <<>> THEN histogram
    ELSE IncrementBins(IF taus[1] < len
                       THEN [histogram EXCEPT ![taus[1]] = @ + 1]
                       ELSE histogram,
                       Tail(taus), len)

\* histogram.len() of a histogram with the bins 0..len-1
HistLen(histogram) == Cardinality(DOMAIN histogram)

\* the guard compares the u16 arrival time with histogram.len() as u16
load_histogram_compressed(fr, pos, histogram) ==
    LET rd == ReadArrivalSlab(fr, pos)
    IN  IF rd.st # "Ok" THEN rd
        ELSE KOk(rd.pos, IncrementBins(histogram, rd.out, HistLen(histogram) % U16Mod))

\* the guard compares the arrival time as usize with histogram.len()
load_histogram_uncompressed(fr, pos, histogram) ==
    LET n  == StripByteCounts(fr)
        rd == read_exact(fr, pos, n)
    IN  IF ~rd.ok THEN KErr(rd.pos)
        ELSE IF ~try_cast_slice(n, PhotonBytes) THEN KErr(rd.pos)
        ELSE KOk(rd.pos,
                 IncrementBins(histogram,
                     [i \in DOMAIN fr.photons |-> fr.photons[i].tau],
                     HistLen(histogram)))

\* load_histogram without its final seek
load_histogram_without_seek_back(fr, pos) ==
    IF fr.tag = RAW THEN load_histogram_uncompressed(fr, StripOffsets, ZeroHistogram)
    ELSE IF fr.tag = COMPRESSED THEN load_histogram_compressed(fr, StripOffsets, ZeroHistogram)
    ELSE KErr(StripOffsets)

\* the `?` on a kernel or on the invalid tag returns before the final seek
load_histogram(fr, pos) ==
    LET k == IF fr.tag = NoTag THEN KPanic(StripOffsets)
             ELSE IF fr.tag = RAW THEN load_histogram_uncompressed(fr, StripOffsets, ZeroHistogram)
             ELSE IF fr.tag = COMPRESSED THEN load_histogram_compressed(fr, StripOffsets, ZeroHistogram)
             ELSE KErr(StripOffsets)
    IN  IF k.st = "Ok" THEN KOk(pos, k.out) ELSE k

(***************************************************************************)
(* Empirical lifetime with intensity: data/image/flim/empirical_lifetime   *)
(* A lifetime pixel <<s, n>> stands for the f64 quotient s / n.            *)
(***************************************************************************)
\* lifetime[y, x] += tau and intensity[y, x] += 1 for every photon
RECURSIVE AddPhotons(_, _, _, _)
AddPhotons(acc, photons, dy, dx) ==
    IF photons = <<>> THEN acc
    ELSE LET px == <<photon_to_y(photons[1], dy, FrameH),
                     photon_to_x(photons[1], dx, FrameW)>>
         IN  AddPhotons([lifetime  |-> [acc.lifetime EXCEPT ![px] = @ + photons[1].tau],
                         intensity |-> [acc.intensity EXCEPT ![px] = (@ + 1) % U16Mod]],
                        Tail(photons), dy, dx)

\* *pixel /= *intensity for every pixel
DivideByIntensity(acc) ==
    [lifetime  |-> [px \in Pixels |-> <<acc.lifetime[px], acc.intensity[px]>>],
     intensity |-> acc.intensity]

load_flim_intensity_empirical_uncompressed(fr, pos) ==
    LET rd == photonwise_op(fr, pos)
    IN  IF rd.st # "Ok" THEN rd
        ELSE KOk(rd.pos,
                 DivideByIntensity(
                     AddPhotons([lifetime |-> ZeroImage, intensity |-> ZeroImage],
                                rd.out, 0, 0)))

load_flim_intensity_empirical_uncompressed_registered(fr, pos, registration) ==
    LET rd == photonwise_op(fr, pos)
    IN  IF rd.st # "Ok" THEN rd
        ELSE KOk(rd.pos,
                 DivideByIntensity(
                     AddPhotons([lifetime |-> ZeroImage, intensity |-> ZeroImage],
                                rd.out, registration[1], registration[2])))

load_flim_intensity_empirical_compressed(fr, pos) ==
    LET ir == ReadIntensitySlab(fr, pos)
        ar == ReadArrivalSlab(fr, ir.pos)
    IN  IF ir.st # "Ok" THEN ir
        ELSE IF ar.st # "Ok" THEN ar
        ELSE IF ~ArrivalsInRange(ir.out, ar.out) THEN KPanic(ar.pos)
        ELSE KOk(ar.pos,
                 [lifetime  |-> [px \in Pixels |->
                                    <<SeqSum(PixelArrivals(ir.out, ar.out, px)), ir.out[px]>>],
                  intensity |-> ir.out])

load_flim_intensity_empirical_compressed_registered(fr, pos, registration) ==
    LET k == load_flim_intensity_empirical_compressed(fr, pos)
    IN  IF k.st # "Ok" THEN k
        ELSE KOk(k.pos, [lifetime  |-> roll_inplace(k.out.lifetime, registration),
                         intensity |-> roll_inplace(k.out.intensity, registration)])

\* the `?` on a kernel or on the invalid tag returns before the final seek
load_flim_empirical_and_intensity_arrays(fr, pos) ==
    LET k == IF fr.tag = NoTag THEN KPanic(StripOffsets)
             ELSE IF fr.tag = RAW
             THEN load_flim_intensity_empirical_uncompressed(fr, StripOffsets)
             ELSE IF fr.tag = COMPRESSED
             THEN load_flim_intensity_empirical_compressed(fr, StripOffsets)
             ELSE KErr(StripOffsets)
    IN  IF k.st = "Ok" THEN KOk(pos, k.out) ELSE k

load_flim_empirical_and_intensity_arrays_registered(fr, pos, registration) ==
    LET k == IF fr.tag = NoTag THEN KPanic(StripOffsets)
             ELSE IF fr.tag = RAW
             THEN load_flim_intensity_empirical_uncompressed_registered(
                      fr, StripOffsets, registration)
             ELSE IF fr.tag = COMPRESSED
             THEN load_flim_intensity_empirical_compressed_registered(
                      fr, StripOffsets, registration)
             ELSE KErr(StripOffsets)
    IN  IF k.st = "Ok" THEN KOk(pos, k.out) ELSE k

(***************************************************************************)
(* Arrival-time volume: data/image/flim.rs, built on load_array_from_siff! *)
(***************************************************************************)
TauVoxels == Pixels \X (0..(NumTauBins - 1))

ZeroVolume == [v \in TauVoxels |-> 0]

load_tau_d_raw(fr, pos) ==
    LET rd == photonwise_op(fr, pos)
    IN  IF rd.st # "Ok" THEN rd
        ELSE KOk(rd.pos,
                 IncrementAll(ZeroVolume,
                     [i \in DOMAIN rd.out |->
                         <<<<photon_to_y(rd.out[i], 0, FrameH),
                             photon_to_x(rd.out[i], 0, FrameW)>>,
                           rd.out[i].tau % NumTauBins>>]))

load_tau_d_compressed(fr, pos) ==
    LET ir == ReadIntensitySlab(fr, pos)
        ar == ReadArrivalSlab(fr, ir.pos)
    IN  IF ir.st # "Ok" THEN ir
        ELSE IF ar.st # "Ok" THEN ar
        ELSE IF ~ArrivalsInRange(ir.out, ar.out) THEN KPanic(ar.pos)
        ELSE KOk(ar.pos,
                 [v \in TauVoxels |->
                     Cardinality({i \in DOMAIN PixelArrivals(ir.out, ar.out, v[1]) :
                         PixelArrivals(ir.out, ar.out, v[1])[i] % NumTauBins = v[2]})
                         % U16Mod])

\* load_array_from_siff!(reader, ifd, (raw_func, ..), (compressed_func, ..)):
\* any other tag leaves the array as it is and is no error; map_err seeks
\* back to pos before the error is returned
load_array_from_siff(fr, pos, array, raw_func, compressed_func) ==
    LET k == IF fr.tag = NoTag THEN KPanic(StripOffsets)
             ELSE IF fr.tag = RAW THEN raw_func
             ELSE IF fr.tag = COMPRESSED THEN compressed_func
             ELSE KOk(StripOffsets, array)
    IN  IF k.st = "Ok" THEN KOk(pos, k.out)
        ELSE IF k.st = "Err" THEN KErr(pos)
        ELSE k

load_array_tau_d(fr, pos) ==
    load_array_from_siff(fr, pos, ZeroVolume,
                         load_tau_d_raw(fr, StripOffsets),
                         load_tau_d_compressed(fr, StripOffsets))

(***************************************************************************)
(* Masked reductions.  A mask is a boolean array over the frame's pixels.  *)
(***************************************************************************)
AsU64(b) == IF b THEN 1 ELSE 0

\* *frame_sum += mask[idx] as u64 for every index of idxs
RECURSIVE SumMaskAt(_, _)
SumMaskAt(mask, idxs) ==
    IF idxs = <<>> THEN 0 ELSE AsU64(mask[idxs[1]]) + SumMaskAt(mask, Tail(idxs))

\* sum of data[px] * mask[px] over the pixels, data and mask zipped in scan order
SumZip(data, mask) == SumOver([px \in Pixels |-> data[px] * AsU64(mask[px])], Pixels)

\* data/image/intensity/siff/unregistered.rs
sum_mask_raw_siff(fr, pos, mask) ==
    LET n  == StripByteCounts(fr)
        rd == read_exact(fr, pos, n)
    IN  IF ~rd.ok THEN KErr(rd.pos)
        ELSE IF ~try_cast_slice(n, PhotonBytes) THEN KErr(rd.pos)
        ELSE KOk(rd.pos,
                 SumMaskAt(mask,
                     [i \in DOMAIN fr.photons |->
                         <<photon_to_y(fr.photons[i], 0, FrameH),
                           photon_to_x(fr.photons[i], 0, FrameW)>>]))

\* sum_mask_compressed_siff adding every pixel, masked or not
sum_mask_compressed_siff_unmasked(fr, pos, mask) ==
    LET rd == ReadIntensitySlab(fr, pos)
    IN  IF rd.st # "Ok" THEN rd ELSE KOk(rd.pos, SumOver(rd.out, Pixels))

sum_mask_compressed_siff(fr, pos, mask) ==
    LET rd == ReadIntensitySlab(fr, pos)
    IN  IF rd.st # "Ok" THEN rd ELSE KOk(rd.pos, SumZip(rd.out, mask))

\* data/image/intensity/siff/registered.rs
sum_mask_raw_siff_registered(fr, pos, mask, registration) ==
    LET n  == StripByteCounts(fr)
        rd == read_exact(fr, pos, n)
    IN  IF ~rd.ok THEN KErr(rd.pos)
        ELSE IF ~try_cast_slice(n, PhotonBytes) THEN KErr(rd.pos)
        ELSE KOk(rd.pos,
                 SumMaskAt(mask,
                     [i \in DOMAIN fr.photons |->
                         <<photon_to_y(fr.photons[i], registration[1], FrameH),
                           photon_to_x(fr.photons[i], registration[2], FrameW)>>]))

sum_mask_compressed_siff_registered(fr, pos, mask, registration) ==
    LET rd == ReadIntensitySlab(fr, pos)
    IN  IF rd.st # "Ok" THEN rd
        ELSE KOk(rd.pos, SumZip(roll_inplace(rd.out, registration), mask))

\* intensity::siff::sum_mask and sum_mask_registered
sum_mask(fr, pos, mask) ==
    load_array_from_siff(fr, pos, 0,
                         sum_mask_raw_siff(fr, StripOffsets, mask),
                         sum_mask_compressed_siff(fr, StripOffsets, mask))

sum_mask_registered(fr, pos, mask, registration) ==
    load_array_from_siff(fr, pos, 0,
        sum_mask_raw_siff_registered(fr, StripOffsets, mask, registration),
        sum_mask_compressed_siff_registered(fr, StripOffsets, mask, registration))

\* data/image/flim/empirical_lifetime/unregistered.rs: the lifetime sum
\* <<s, n>> stands for the f64 quotient s / n
RECURSIVE SumMaskedPhotons(_, _, _, _, _)
SumMaskedPhotons(acc, photons, mask, dy, dx) ==
    IF photons = <<>> THEN acc
    ELSE LET px == <<photon_to_y(photons[1], dy, FrameH),
                     photon_to_x(photons[1], dx, FrameW)>>
         IN  SumMaskedPhotons(
                 [lifetime_sum  |-> acc.lifetime_sum + photons[1].tau * AsU64(mask[px]),
                  intensity_sum |-> acc.intensity_sum + AsU64(mask[px])],
                 Tail(photons), mask, dy, dx)

\* the accumulators left as they are, the tau sum not divided
LeaveSum(acc) ==
    [lifetime_sum  |-> <<acc.lifetime_sum, 1>>,
     intensity_sum |-> acc.intensity_sum]

DivideSum(acc) ==
    [lifetime_sum  |-> <<acc.lifetime_sum, acc.intensity_sum>>,
     intensity_sum |-> acc.intensity_sum]

\* .iter().sum::<u16>() of a pixel's arrival times in a build without
\* overflow checks: the sum wraps at 2^16
sum_u16(taus) == SeqSum(taus) % U16Mod

\* the additions of sum::<u16>() overflow (a build with overflow checks
\* panics)
sum_u16_overflows(taus) == SeqSum(taus) >= U16Mod

sum_mask_empirical_intensity_raw(fr, pos, mask) ==
    LET rd == photonwise_op(fr, pos)
    IN  IF rd.st # "Ok" THEN rd
        ELSE KOk(rd.pos,
                 DivideSum(SumMaskedPhotons([lifetime_sum |-> 0, intensity_sum |-> 0],
                                            rd.out, mask, 0, 0)))

sum_mask_empirical_intensity_compressed(fr, pos, mask) ==
    LET ir == ReadIntensitySlab(fr, pos)
        ar == ReadArrivalSlab(fr, ir.pos)
    IN  IF ir.st # "Ok" THEN ir
        ELSE IF ar.st # "Ok" THEN ar
        ELSE IF ~ArrivalsInRange(ir.out, ar.out) THEN KPanic(ar.pos)
        ELSE KOk(ar.pos,
                 DivideSum(
                     [lifetime_sum  |->
                          SumOver([px \in Pixels |->
                                      AsU64(mask[px])
                                      * sum_u16(PixelArrivals(ir.out, ar.out, px))],
                                  Pixels),
                      intensity_sum |-> SumZip(ir.out, mask)]))

\* data/image/flim/empirical_lifetime/registered.rs
sum_mask_empirical_intensity_raw_registered(fr, pos, mask, registration) ==
    LET rd == photonwise_op(fr, pos)
    IN  IF rd.st # "Ok" THEN rd
        ELSE KOk(rd.pos,
                 DivideSum(SumMaskedPhotons([lifetime_sum |-> 0, intensity_sum |-> 0],
                                            rd.out, mask,
                                            registration[1], registration[2])))

\* the kernel below rolling the mask the way the image is rolled
sum_mask_empirical_intensity_compressed_registered_same_way(fr, pos, mask, registration) ==
    sum_mask_empirical_intensity_compressed(fr, pos, roll(mask, registration))

\* rolls the mask the opposite way and calls the unregistered kernel
sum_mask_empirical_intensity_compressed_registered(fr, pos, mask, registration) ==
    sum_mask_empirical_intensity_compressed(
        fr, pos, roll(mask, <<-registration[1], -registration[2]>>))

\* flim::empirical_lifetime::sum_lifetime_intensity_mask[_registered]
sum_lifetime_intensity_mask(fr, pos, mask) ==
    load_array_from_siff(fr, pos, [lifetime_sum |-> <<0, 1>>, intensity_sum |-> 0],
        sum_mask_empirical_intensity_raw(fr, StripOffsets, mask),
        sum_mask_empirical_intensity_compressed(fr, StripOffsets, mask))

sum_lifetime_intensity_mask_registered(fr, pos, mask, registration) ==
    load_array_from_siff(fr, pos, [lifetime_sum |-> <<0, 1>>, intensity_sum |-> 0],
        sum_mask_empirical_intensity_raw_registered(fr, StripOffsets, mask, registration),
        sum_mask_empirical_intensity_compressed_registered(
            fr, StripOffsets, mask, registration))

(***************************************************************************)
(* Multi-mask reductions.  masks is a stack (a sequence) of masks, and the *)
(* accumulators are one per mask, zero on entry.                           *)
(***************************************************************************)
ZeroSums(masks) == [i \in DOMAIN masks |-> [lifetime_sum |-> 0, intensity_sum |-> 0]]

\* photonwise: every photon is added to the accumulator of every mask
RECURSIVE SumMasksPhotons(_, _, _, _, _)
SumMasksPhotons(accs, photons, masks, dy, dx) ==
    IF photons = <<>> THEN accs
    ELSE LET px == <<photon_to_y(photons[1], dy, FrameH),
                     photon_to_x(photons[1], dx, FrameW)>>
         IN  SumMasksPhotons(
                 [i \in DOMAIN accs |->
                     [lifetime_sum  |-> accs[i].lifetime_sum
                                        + AsU64(masks[i][px]) * photons[1].tau,
                      intensity_sum |-> accs[i].intensity_sum + AsU64(masks[i][px])]],
                 Tail(photons), masks, dy, dx)

sum_masks_empirical_intensity_raw(fr, pos, masks) ==
    LET rd == photonwise_op(fr, pos)
    IN  IF rd.st # "Ok" THEN rd
        ELSE KOk(rd.pos,
                 LET accs == SumMasksPhotons(ZeroSums(masks), rd.out, masks, 0, 0)
                 IN  [i \in DOMAIN masks |-> DivideSum(accs[i])])

\* the arrival words of pixel px when the scan of one mask began at cursor
CursorArrivals(intensity, arrival_times, px, cursor) ==
    SubSeq(arrival_times, cursor + ArrivalPointer(intensity, px) + 1,
           cursor + ArrivalPointer(intensity, px) + intensity[px])

\* lifetime_data[pointer .. pointer + intensity] is in range at every pixel
\* of a pass whose lifetime_pointer starts at cursor
PassInRange(intensity, arrival_times, cursor) ==
    \A px \in Pixels :
        \/ intensity[px] = 0
        \/ cursor + ArrivalPointer(intensity, px) + intensity[px] <= Len(arrival_times)

\* one pass over the pixels for one mask, lifetime_pointer starting at cursor
MaskPass(intensity, arrival_times, mask, cursor) ==
    DivideSum(
        [lifetime_sum  |->
             SumOver([px \in Pixels |->
                         AsU64(mask[px])
                         * sum_u16(CursorArrivals(intensity, arrival_times, px, cursor))],
                     Pixels),
         intensity_sum |-> SumZip(intensity, mask)])

\* the multi-mask kernel whose arrival cursor runs on from mask to mask
sum_masks_empirical_intensity_compressed_running_cursor(fr, pos, masks) ==
    LET ir == ReadIntensitySlab(fr, pos)
        ar == ReadArrivalSlab(fr, ir.pos)
    IN  IF ir.st # "Ok" THEN ir
        ELSE IF ar.st # "Ok" THEN ar
        ELSE LET cursor(i) == (i - 1) * SumOver(ir.out, Pixels)
             IN  IF \E i \in DOMAIN masks : ~PassInRange(ir.out, ar.out, cursor(i))
                 THEN KPanic(ar.pos)
                 ELSE KOk(ar.pos,
                          [i \in DOMAIN masks |->
                              MaskPass(ir.out, ar.out, masks[i], cursor(i))])

sum_masks_empirical_intensity_compressed(fr, pos, masks) ==
    LET ir == ReadIntensitySlab(fr, pos)
        ar == ReadArrivalSlab(fr, ir.pos)
    IN  IF ir.st # "Ok" THEN ir
        ELSE IF ar.st # "Ok" THEN ar
        ELSE IF ~PassInRange(ir.out, ar.out, 0) THEN KPanic(ar.pos)
        ELSE KOk(ar.pos, [i \in DOMAIN masks |-> MaskPass(ir.out, ar.out, masks[i], 0)])

sum_masks_empirical_intensity_raw_registered(fr, pos, masks, registration) ==
    LET rd == photonwise_op(fr, pos)
    IN  IF rd.st # "Ok" THEN rd
        ELSE KOk(rd.pos,
                 LET accs == SumMasksPhotons(ZeroSums(masks), rd.out, masks,
                                             registration[1], registration[2])
                 IN  [i \in DOMAIN masks |-> DivideSum(accs[i])])

\* rolls every mask the opposite way and calls the unregistered kernel
sum_masks_empirical_intensity_compressed_registered(fr, pos, masks, registration) ==
    sum_masks_empirical_intensity_compressed(
        fr, pos,
        [i \in DOMAIN masks |->
            roll_inplace(masks[i], <<-registration[1], -registration[2]>>)])

\* flim::empirical_lifetime::sum_lifetime_intensity_masks[_registered]
sum_lifetime_intensity_masks(fr, pos, masks) ==
    load_array_from_siff(fr, pos,
        [i \in DOMAIN masks |-> [lifetime_sum |-> <<0, 1>>, intensity_sum |-> 0]],
        sum_masks_empirical_intensity_raw(fr, StripOffsets, masks),
        sum_masks_empirical_intensity_compressed(fr, StripOffsets, masks))

sum_lifetime_intensity_masks_registered(fr, pos, masks, registration) ==
    load_array_from_siff(fr, pos,
        [i \in DOMAIN masks |-> [lifetime_sum |-> <<0, 1>>, intensity_sum |-> 0]],
        sum_masks_empirical_intensity_raw_registered(fr, StripOffsets, masks, registration),
        sum_masks_empirical_intensity_compressed_registered(
            fr, StripOffsets, masks, registration))

(***************************************************************************)
(* SiffReader requests (siffreader.rs).  ifds is the directory of the open *)
(* file, frames a list of 0-based frame numbers, registration an optional  *)
(* table from frame numbers to shifts.  Every frame of a file has the same *)
(* dimensions, so the shared-shape check always passes.                    *)
(***************************************************************************)
ROk(out) == [st |-> "Ok", err |-> "none", out |-> out]
RErr(err) == [st |-> "Err", err |-> err, out |-> Null]
RPanic == [st |-> "Panic", err |-> "none", out |-> Null]

NoRegistration == [some |-> FALSE, table |-> [k \in {} |-> <<0, 0>>]]
SomeRegistration(table) == [some |-> TRUE, table |-> table]

check_frames_in_bounds(frames, ifds) ==
    \A i \in DOMAIN frames : frames[i] < Len(ifds)

\* check_registration without the conversion of an empty table
check_registration_keeps_empty_table(registration, frames) ==
    IF registration.some
    THEN [ok |-> \A i \in DOMAIN frames : frames[i] \in DOMAIN registration.table,
          registration |-> registration]
    ELSE [ok |-> TRUE, registration |-> registration]

\* yields whether the request may proceed, and the registration it uses
check_registration(registration, frames) ==
    IF registration.some
    THEN IF DOMAIN registration.table = {}
         THEN [ok |-> TRUE, registration |-> NoRegistration]
         ELSE [ok |-> \A i \in DOMAIN frames : frames[i] \in DOMAIN registration.table,
               registration |-> registration]
    ELSE [ok |-> TRUE, registration |-> registration]

\* parallelize_op! for a request that fits one chunk: rows[i] is the outcome
\* of the per-frame call for frames[i], made on the chunk's own reader (at 0);
\* the first failure ends the chunk and fails the request
parallelize_op(rows) ==
    LET failed == {i \in DOMAIN rows : rows[i].st # "Ok"}
        first  == CHOOSE i \in failed : \A j \in failed : i <= j
    IN  IF failed = {} THEN ROk([i \in DOMAIN rows |-> rows[i].out])
        ELSE IF rows[first].st = "Err" THEN RErr("IOError")
        ELSE RPanic

\* *reg.get(&this_frame).unwrap()
RegistrationOf(registration, frame) ==
    IF frame \in DOMAIN registration.table
    THEN [ok |-> TRUE, shift |-> registration.table[frame]]
    ELSE [ok |-> FALSE, shift |-> <<0, 0>>]

get_frames_intensity(ifds, frames, registration) ==
    LET chk == check_registration(registration, frames)
        reg == chk.registration
    IN  IF ~check_frames_in_bounds(frames, ifds) THEN RErr("IncorrectFrames")
        ELSE IF ~chk.ok THEN RErr("RegistrationFramesMissing")
        ELSE parallelize_op(
                 [i \in DOMAIN frames |->
                     IF reg.some
                     THEN IF RegistrationOf(reg, frames[i]).ok
                          THEN load_array_registered(ifds[frames[i] + 1], 0,
                                   RegistrationOf(reg, frames[i]).shift)
                          ELSE KPanic(0)
                     ELSE load_array(ifds[frames[i] + 1], 0)])

get_frames_flim(ifds, frames, registration) ==
    LET chk == check_registration(registration, frames)
        reg == chk.registration
    IN  IF ~check_frames_in_bounds(frames, ifds) THEN RErr("IncorrectFrames")
        ELSE IF ~chk.ok THEN RErr("RegistrationFramesMissing")
        ELSE parallelize_op(
                 [i \in DOMAIN frames |->
                     IF reg.some
                     THEN IF RegistrationOf(reg, frames[i]).ok
                          THEN load_flim_empirical_and_intensity_arrays_registered(
                                   ifds[frames[i] + 1], 0,
                                   RegistrationOf(reg, frames[i]).shift)
                          ELSE KPanic(0)
                     ELSE load_flim_empirical_and_intensity_arrays(ifds[frames[i] + 1], 0)])

get_histogram(ifds, frames) ==
    IF ~check_frames_in_bounds(frames, ifds) THEN RErr("IncorrectFrames")
    ELSE parallelize_op([i \in DOMAIN frames |-> load_histogram(ifds[frames[i] + 1], 0)])

sum_roi_flat(ifds, roi, frames, registration) ==
    LET chk == check_registration(registration, frames)
        reg == chk.registration
    IN  IF ~check_frames_in_bounds(frames, ifds) THEN RErr("IncorrectFrames")
        ELSE IF DOMAIN roi # Pixels THEN RErr("MismatchedDimensions")
        ELSE IF ~chk.ok THEN RErr("RegistrationFramesMissing")
        ELSE parallelize_op(
                 [i \in DOMAIN frames |->
                     IF reg.some
                     THEN IF RegistrationOf(reg, frames[i]).ok
                          THEN sum_mask_registered(ifds[frames[i] + 1], 0, roi,
                                   RegistrationOf(reg, frames[i]).shift)
                          ELSE KPanic(0)
                     ELSE sum_mask(ifds[frames[i] + 1], 0, roi)])

\* the chunks of the driver, numbered from 0.  axis_chunks_iter_mut gives
\* chunk i the rows ArrayChunk(i, n, size) of an output of n rows ...
ChunkCount(n, size) == (n \div size) + (IF n % size = 0 THEN 0 ELSE 1)

\* the rows of chunk i had the chunks followed the offsets table, which
\* spreads the remainder over the first chunks
ArrayChunkByOffsets(i, n, size) ==
    LET n_threads == (n \div size) + 1
        remainder == n % n_threads
        start     == i * size + Min(i, remainder)
        end       == Min(start + size + (IF i < remainder THEN 1 ELSE 0), n)
    IN  [j \in 1..(end - start) |-> start + j]

ArrayChunk(i, n, size) == [j \in 1..Min(size, n - i * size) |-> i * size + j]

\* the local frames taken from the front of the request in every chunk
FrameSliceFromZero(i, n, size) ==
    [j \in 1..(Min((i + 1) * size, n) - i * size) |-> j]

\* ... and the worker takes frames[start..end] as its local frames
FrameSlice(i, n, size) ==
    LET start == i * size
        end   == Min((i + 1) * size, n)
    IN  [j \in 1..(end - start) |-> start + j]

\* roi_cycle: the planes cycled, after skipping start % P of them; the plane
\* (1-based) that meets the j-th frame of the chunk
PlaneUnskipped(start, j, planes) == ((j - 1) % planes) + 1

PlaneOf(start, j, planes) == (((start % planes) + (j - 1)) % planes) + 1

\* the outcome of one chunk operation: its items in order up to the first
\* failure; items[j] is the outcome of the j-th per-frame call
ChunkOutcome(items) ==
    LET failed == {j \in DOMAIN items : items[j].st # "Ok"}
        first  == CHOOSE j \in failed : \A k \in failed : j <= k
    IN  IF failed = {} THEN "Ok" ELSE items[first].st

\* try_for_each over the chunks: the outcomes the request can have.  A chunk
\* that has not started when another one fails may be skipped, so a chunk
\* that would panic may or may not run once another chunk has failed.
JoinOutcomes(chunks, rows) ==
    LET sts == {chunks[i] : i \in DOMAIN chunks}
    IN  IF sts \subseteq {"Ok"} THEN {ROk(rows)}
        ELSE IF "Panic" \notin sts THEN {RErr("IOError")}
        ELSE IF "Err" \notin sts THEN {RPanic}
        ELSE {RErr("IOError"), RPanic}

\* the shape check of the masked requests: every plane has the frames' shape
MaskFits(planes) == \A p \in DOMAIN planes : DOMAIN planes[p] = Pixels

\* sum_roi_volume with the shape check made after the frames are read
sum_roi_volume_reads_first(ifds, roi, frames, registration) ==
    IF ~check_frames_in_bounds(frames, ifds) THEN {RErr("IncorrectFrames")}
    ELSE IF \E i \in DOMAIN frames : load_array(ifds[frames[i] + 1], 0).st # "Ok"
         THEN {RErr("IOError")}
    ELSE {RErr("MismatchedDimensions")}

\* sum_roi_volume: roi is a stack of planes; the set of possible outcomes
sum_roi_volume(ifds, roi, frames, registration) ==
    LET chk == check_registration(registration, frames)
        reg == chk.registration
        n   == Len(frames)
        item(i, j) ==
            LET k     == FrameSlice(i, n, ChunkSize)[j]
                fr    == ifds[frames[k] + 1]
                plane == roi[PlaneOf(i * ChunkSize, j, Len(roi))]
            IN  IF reg.some
                THEN IF RegistrationOf(reg, frames[k]).ok
                     THEN sum_mask_registered(fr, 0, plane,
                                              RegistrationOf(reg, frames[k]).shift)
                     ELSE KPanic(0)
                ELSE sum_mask(fr, 0, plane)
        \* izip! of the local frames, the rows of the chunk and the planes
        items(i) == [j \in 1..Min(Len(FrameSlice(i, n, ChunkSize)),
                                  Len(ArrayChunk(i, n, ChunkSize))) |-> item(i, j)]
        chunks == [i \in 0..(ChunkCount(n, ChunkSize) - 1) |->
                      IF Len(roi) = 0 THEN "Panic" ELSE ChunkOutcome(items(i))]
        \* row k of the output is written by the chunk items that own it
        owners(k) == {o \in (0..(ChunkCount(n, ChunkSize) - 1)) \X (1..ChunkSize) :
                         /\ o[2] \in DOMAIN items(o[1])
                         /\ ArrayChunk(o[1], n, ChunkSize)[o[2]] = k}
        rows == [k \in 1..n |->
                    IF owners(k) = {} THEN 0
                    ELSE LET o == CHOOSE o \in owners(k) : TRUE
                         IN  item(o[1], o[2]).out]
    IN  IF ~check_frames_in_bounds(frames, ifds) THEN {RErr("IncorrectFrames")}
        ELSE IF ~MaskFits(roi) THEN {RErr("MismatchedDimensions")}
        ELSE IF ~chk.ok THEN {RErr("RegistrationFramesMissing")}
        ELSE JoinOutcomes(chunks, rows)

\* the metadata of a frame stands for its directory record
get_frame_metadata(ifds, frames) ==
    IF ~check_frames_in_bounds(frames, ifds) THEN RErr("IncorrectFrames")
    ELSE ROk([i \in DOMAIN frames |-> frames[i]])

\* get_experiment_timestamps, get_epoch_timestamps_laser,
\* get_epoch_timestamps_system and get_epoch_timestamps_both
get_timestamps(ifds, frames) ==
    IF ~check_frames_in_bounds(frames, ifds) THEN RErr("IncorrectFrames")
    ELSE parallelize_op([i \in DOMAIN frames |-> KOk(0, frames[i])])

\* indexes the directory with every frame number, without a bounds check;
\* no frame of the model carries appended text
get_appended_text(ifds, frames) ==
    IF \E i \in DOMAIN frames : frames[i] + 1 > Len(ifds) THEN RPanic
    ELSE ROk(<<>>)

(***************************************************************************)
(* State: the frames of the open file, the position of the caller's        *)
(* reader, and the outcome of the call that was made last.                 *)
(***************************************************************************)
VARIABLES file, pos, ret, par, cli, walk, scan

vars == <<file, pos, ret, par, cli, walk, scan>>

\* what happens outside a request on an open file: cli is the converter
\* command, walk the directory walk of SiffReader::open, scan the photon loop
\* of one kernel call
rest == <<cli, walk, scan>>

NoCli == [pc |-> "none"]
NoWalk == [pc |-> "none"]
NoScan == [pc |-> "none"]

RestIdle == cli = NoCli /\ walk = NoWalk /\ scan = NoScan

ZeroMask == [px \in Pixels |-> FALSE]

NoCall == [op |-> "none", frames |-> <<>>, reg |-> NoRegistration,
           shift |-> <<0, 0>>, mask |-> ZeroMask, pre |-> 0, st |-> "none",
           err |-> "none", out |-> Null]

\* par: the parallel driver of a request in progress.  workers[w] runs chunk
\* w - 1; array is the output being filled; writers[k] are the workers that
\* have written row k
NoPar == [phase |-> "idle", op |-> "none", frames |-> <<>>, workers |-> <<>>,
          array |-> <<>>, writers |-> <<>>]

(***************************************************************************)
(* Dispatcher calls on a caller-held reader over a one-frame file          *)
(***************************************************************************)
StartPositions == (0..MaxStart) \cup {StripOffsets}

\* a few shifts: none, down, left, and down-left
SomeShifts == {sh \in Shifts : sh[1] \in {0, MaxShift} /\ sh[2] \in {0, -MaxShift}}

DispatchInit ==
    /\ file \in {<<fr>> : fr \in DispatchFrames}
    /\ pos = 0
    /\ ret = NoCall
    /\ par = NoPar
    /\ RestIdle

\* no call is outstanding: one call at a time is made
Idle == ret.op = "none"

\* the caller takes the outcome and seeks the reader to p
Seek(p) ==
    /\ pos' = p
    /\ ret' = NoCall
    /\ UNCHANGED <<file, par, rest>>

DispatcherReturns(op, shift, mask, k) ==
    /\ pos' = k.pos
    /\ ret' = [NoCall EXCEPT !.op = op, !.shift = shift, !.mask = mask, !.pre = pos,
                             !.st = k.st, !.out = k.out]
    /\ UNCHANGED <<file, par, rest>>

CallLoadArray ==
    DispatcherReturns("load_array", <<0, 0>>, ZeroMask, load_array(file[1], pos))

CallLoadArrayRegistered(sh) ==
    DispatcherReturns("load_array_registered", sh, ZeroMask,
                      load_array_registered(file[1], pos, sh))

CallLoadHistogram ==
    DispatcherReturns("load_histogram", <<0, 0>>, ZeroMask, load_histogram(file[1], pos))

CallLoadFlim ==
    DispatcherReturns("load_flim_empirical_and_intensity_arrays", <<0, 0>>, ZeroMask,
                      load_flim_empirical_and_intensity_arrays(file[1], pos))

CallLoadFlimRegistered(sh) ==
    DispatcherReturns("load_flim_empirical_and_intensity_arrays_registered", sh, ZeroMask,
                      load_flim_empirical_and_intensity_arrays_registered(file[1], pos, sh))

CallLoadArrayTauD ==
    DispatcherReturns("load_array_tau_d", <<0, 0>>, ZeroMask, load_array_tau_d(file[1], pos))

DispatchNext ==
    \/ \E p \in StartPositions : Seek(p)
    \/ Idle /\ CallLoadArray
    \/ Idle /\ \E sh \in Shifts : CallLoadArrayRegistered(sh)
    \/ Idle /\ CallLoadHistogram
    \/ Idle /\ CallLoadFlim
    \/ Idle /\ \E sh \in Shifts : CallLoadFlimRegistered(sh)
    \/ Idle /\ CallLoadArrayTauD

DispatchSpec == DispatchInit /\ [][DispatchNext]_vars

(***************************************************************************)
(* Masked reductions of one frame                                          *)
(***************************************************************************)
RowMask(y) == [px \in Pixels |-> px[1] = y]
ColumnMask(x) == [px \in Pixels |-> px[2] = x]
PixelMask(p) == [px \in Pixels |-> px = p]

\* the empty mask, the full mask, and every row, column and single pixel
Masks ==
    {ZeroMask, [px \in Pixels |-> TRUE]}
    \cup {RowMask(y) : y \in 0..(FrameH - 1)}
    \cup {ColumnMask(x) : x \in 0..(FrameW - 1)}
    \cup {PixelMask(p) : p \in Pixels}

MaskFrames == [tag : {RAW, COMPRESSED}, photons : {Stream(ps, 1) : ps \in PixelStreams},
               slack : {0}, trunc : {FALSE}]

\* every shift in y, with none or the largest shift either way in x
MaskShifts == {sh \in Shifts : sh[2] \in {-MaxShift, 0, MaxShift}}

MaskInit ==
    /\ file \in {<<fr>> : fr \in MaskFrames}
    /\ pos = 0
    /\ ret = NoCall
    /\ par = NoPar
    /\ RestIdle

\* the caller takes the outcome
TakeResult ==
    /\ ret.op # "none"
    /\ ret' = NoCall
    /\ UNCHANGED <<file, pos, par, rest>>

CallSumMask(mask) ==
    DispatcherReturns("sum_mask", <<0, 0>>, mask, sum_mask(file[1], pos, mask))

CallSumMaskRegistered(mask, sh) ==
    DispatcherReturns("sum_mask_registered", sh, mask,
                      sum_mask_registered(file[1], pos, mask, sh))

CallSumLifetimeIntensityMask(mask) ==
    DispatcherReturns("sum_lifetime_intensity_mask", <<0, 0>>, mask,
                      sum_lifetime_intensity_mask(file[1], pos, mask))

CallSumLifetimeIntensityMaskRegistered(mask, sh) ==
    DispatcherReturns("sum_lifetime_intensity_mask_registered", sh, mask,
                      sum_lifetime_intensity_mask_registered(file[1], pos, mask, sh))

MaskNext ==
    \/ TakeResult
    \/ Idle /\ \E mask \in Masks : CallSumMask(mask)
    \/ Idle /\ \E mask \in Masks, sh \in SomeShifts : CallSumMaskRegistered(mask, sh)
    \/ Idle /\ \E mask \in Masks : CallSumLifetimeIntensityMask(mask)
    \/ Idle /\ \E mask \in Masks, sh \in MaskShifts : CallSumLifetimeIntensityMaskRegistered(mask, sh)

MaskSpec == MaskInit /\ [][MaskNext]_vars

(***************************************************************************)
(* Masked FLIM reductions of one frame under one mask and under a stack    *)
(***************************************************************************)
StackMasks == {ZeroMask, [px \in Pixels |-> TRUE], RowMask(0), ColumnMask(FrameW - 1)}

\* no shift, and the largest shift down and left
StackShifts == {<<0, 0>>, <<MaxShift, -MaxShift>>}

\* every stack of one or two masks
Stacks == {<<a>> : a \in StackMasks} \cup {<<a, b>> : a \in StackMasks, b \in StackMasks}

CallSumLifetimeIntensityMasks(masks) ==
    DispatcherReturns("sum_lifetime_intensity_masks", <<0, 0>>, masks,
                      sum_lifetime_intensity_masks(file[1], pos, masks))

CallSumLifetimeIntensityMasksRegistered(masks, sh) ==
    DispatcherReturns("sum_lifetime_intensity_masks_registered", sh, masks,
                      sum_lifetime_intensity_masks_registered(file[1], pos, masks, sh))

StackNext ==
    \/ TakeResult
    \/ Idle /\ \E mask \in StackMasks : CallSumLifetimeIntensityMask(mask)
    \/ Idle /\ \E mask \in StackMasks, sh \in StackShifts :
                   CallSumLifetimeIntensityMaskRegistered(mask, sh)
    \/ Idle /\ \E masks \in Stacks : CallSumLifetimeIntensityMasks(masks)
    \/ Idle /\ \E masks \in Stacks, sh \in StackShifts :
                   CallSumLifetimeIntensityMasksRegistered(masks, sh)

StackSpec == MaskInit /\ [][StackNext]_vars

(***************************************************************************)
(* Requests to a SiffReader                                                *)
(***************************************************************************)
RequestReturns(op, frames, registration, mask, r) ==
    /\ ret' = [NoCall EXCEPT !.op = op, !.frames = frames, !.reg = registration,
                             !.mask = mask, !.st = r.st, !.err = r.err, !.out = r.out]
    /\ UNCHANGED <<file, pos, par, rest>>

GetFramesIntensity(frames, registration) ==
    RequestReturns("get_frames_intensity", frames, registration, ZeroMask,
                   get_frames_intensity(file, frames, registration))

GetFramesFlim(frames, registration) ==
    RequestReturns("get_frames_flim", frames, registration, ZeroMask,
                   get_frames_flim(file, frames, registration))

GetHistogram(frames) ==
    RequestReturns("get_histogram", frames, NoRegistration, ZeroMask,
                   get_histogram(file, frames))

SumRoiFlat(roi, frames, registration) ==
    RequestReturns("sum_roi_flat", frames, registration, roi,
                   sum_roi_flat(file, roi, frames, registration))

GetFrameMetadata(frames) ==
    RequestReturns("get_frame_metadata", frames, NoRegistration, ZeroMask,
                   get_frame_metadata(file, frames))

TimestampGetters == {"get_experiment_timestamps", "get_epoch_timestamps_laser",
                     "get_epoch_timestamps_system", "get_epoch_timestamps_both"}

GetTimestamps(getter, frames) ==
    RequestReturns(getter, frames, NoRegistration, ZeroMask, get_timestamps(file, frames))

GetAppendedText(frames) ==
    RequestReturns("get_appended_text", frames, NoRegistration, ZeroMask,
                   get_appended_text(file, frames))

\* requests about the one frame of a one-frame file
FrameInit ==
    /\ file \in {<<fr>> : fr \in Frames}
    /\ pos = 0
    /\ ret = NoCall
    /\ par = NoPar
    /\ RestIdle

FrameRegistrations ==
    {NoRegistration} \cup {SomeRegistration([k \in {0} |-> sh]) : sh \in Shifts}

FewRegistrations ==
    {NoRegistration} \cup {SomeRegistration([k \in {0} |-> sh]) : sh \in SomeShifts}

FrameNext ==
    \/ TakeResult
    \/ Idle /\ \E reg \in FrameRegistrations : GetFramesIntensity(<<0>>, reg)
    \/ Idle /\ \E reg \in FrameRegistrations : GetFramesFlim(<<0>>, reg)
    \/ Idle /\ GetHistogram(<<0>>)
    \/ Idle /\ \E roi \in Masks, reg \in FewRegistrations : SumRoiFlat(roi, <<0>>, reg)

FrameSpec == FrameInit /\ [][FrameNext]_vars

\* requests with frame lists and registration tables to a file of NumFrames
\* frames; a frame is empty or holds one photon
ListFrames == [tag : {RAW, COMPRESSED}, photons : {<<>>, Stream(<<<<0, 0>>>>, 1)},
               slack : {0}, trunc : {FALSE}]

ListInit ==
    /\ file \in [1..NumFrames -> ListFrames]
    /\ pos = 0
    /\ ret = NoCall
    /\ par = NoPar
    /\ RestIdle

\* frame number NumFrames is the first one out of bounds
FrameLists == UNION {[1..n -> 0..NumFrames] : n \in 1..MaxReq}

\* a table gives every key the same shift
Tables == {[k \in K |-> sh] : K \in SUBSET (0..NumFrames),
                              sh \in {<<0, 0>>, <<MaxShift, -MaxShift>>}}

ListRegistrations == {NoRegistration} \cup {SomeRegistration(t) : t \in Tables}

\* a mask whose shape is not the frames'
TransposedMask == [px \in (0..(FrameW - 1)) \X (0..(FrameH - 1)) |-> TRUE]

ListNext ==
    \/ TakeResult
    \/ Idle /\ \E frames \in FrameLists, reg \in ListRegistrations : GetFramesIntensity(frames, reg)
    \/ Idle /\ \E frames \in FrameLists, reg \in ListRegistrations : GetFramesFlim(frames, reg)
    \/ Idle /\ \E frames \in FrameLists : GetHistogram(frames)
    \/ Idle /\ \E frames \in FrameLists, reg \in ListRegistrations,
                   roi \in {PixelMask(<<0, 0>>), TransposedMask} : SumRoiFlat(roi, frames, reg)
    \/ Idle /\ \E frames \in FrameLists : GetFrameMetadata(frames)
    \/ Idle /\ \E frames \in FrameLists, getter \in TimestampGetters : GetTimestamps(getter, frames)
    \/ Idle /\ \E frames \in FrameLists : GetAppendedText(frames)

ListSpec == ListInit /\ [][ListNext]_vars

(***************************************************************************)
(* Masked requests with flat and volumetric masks                          *)
(***************************************************************************)
\* a RAW frame with one photon, a COMPRESSED frame with two, and a RAW frame
\* whose file ends inside the strip
VolumeFrames ==
    {[tag |-> RAW, photons |-> Stream(<<<<0, 0>>>>, 1), slack |-> 0, trunc |-> FALSE],
     [tag |-> COMPRESSED, photons |-> Stream(<<<<0, 0>>, <<0, 1>>>>, 1),
      slack |-> 0, trunc |-> FALSE],
     [tag |-> RAW, photons |-> Stream(<<<<0, 0>>>>, 1), slack |-> 0, trunc |-> TRUE]}

VolumeInit ==
    /\ file \in [1..NumFrames -> VolumeFrames]
    /\ pos = 0
    /\ ret = NoCall
    /\ par = NoPar
    /\ RestIdle

\* frame lists a, a + b, a + 2b, ... (modulo the number of frames) of up to
\* ChunkSize + 2 frames: constant ones and descending ones
ChunkedLists ==
    {[k \in 1..n |-> (a + b * (k - 1)) % NumFrames] :
        n \in 1..(ChunkSize + 2), a \in 0..(NumFrames - 1), b \in {0, NumFrames - 1}}

VolumePlanes == {ZeroMask, PixelMask(<<0, 0>>), [px \in Pixels |-> TRUE]}

\* volumetric masks of the frames' shape, and one that is transposed
VolumeMasks ==
    UNION {[1..p -> VolumePlanes] : p \in 1..MaxPlanes} \cup {<<TransposedMask>>}

\* no table, or a table giving every frame the same shift
VolumeRegistrations ==
    {NoRegistration,
     SomeRegistration([k \in 0..(NumFrames - 1) |-> <<MaxShift, -MaxShift>>])}

SumRoiVolume(roi, frames, registration) ==
    \E r \in sum_roi_volume(file, roi, frames, registration) :
        RequestReturns("sum_roi_volume", frames, registration, roi, r)

VolumeNext ==
    \/ TakeResult
    \/ Idle /\ \E roi \in VolumeMasks, frames \in ChunkedLists \cup {<<NumFrames>>},
                  reg \in VolumeRegistrations : SumRoiVolume(roi, frames, reg)
    \/ Idle /\ \E roi \in VolumePlanes \cup {TransposedMask},
                  frames \in {l \in ChunkedLists : Len(l) <= MaxReq} \cup {<<NumFrames>>},
                  reg \in VolumeRegistrations : SumRoiFlat(roi, frames, reg)

VolumeSpec == VolumeInit /\ [][VolumeNext]_vars

(***************************************************************************)
(* The parallel driver (utils/parallelize_op.rs, single-array form) under  *)
(* get_frames_intensity and get_histogram without registration.  One       *)
(* worker runs one chunk, frame by frame, on its own reader; the workers   *)
(* interleave freely.                                                      *)
(***************************************************************************)
DriverOps == {"get_frames_intensity", "get_histogram"}

\* the per-frame call of the chunk operation
DriverItem(op, fr) ==
    IF op = "get_frames_intensity" THEN load_array(fr, 0) ELSE load_histogram(fr, 0)

\* Array::zeros: a row of the fresh output
DriverZero(op) == IF op = "get_frames_intensity" THEN ZeroImage ELSE ZeroHistogram

\* frame lists of up to 2 * ChunkSize + 1 frames, for up to three chunks
DriverLists ==
    {[k \in 1..n |-> (a + b * (k - 1)) % NumFrames] :
        n \in 1..(2 * ChunkSize + 1), a \in 0..(NumFrames - 1), b \in 0..(NumFrames - 1)}

DriverInit ==
    /\ file \in [1..NumFrames -> VolumeFrames]
    /\ pos = 0
    /\ ret = NoCall
    /\ par = NoPar
    /\ RestIdle

\* the request checks its frames, allocates the output and starts the driver
DriverStart(op, frames) ==
    /\ par.phase = "idle"
    /\ IF ~check_frames_in_bounds(frames, file)
       THEN /\ ret' = [NoCall EXCEPT !.op = op, !.frames = frames, !.st = "Err",
                                     !.err = "IncorrectFrames"]
            /\ par' = par
       ELSE /\ ret' = [NoCall EXCEPT !.op = op, !.frames = frames, !.st = "running"]
            /\ par' = [phase   |-> "running",
                       op      |-> op,
                       frames  |-> frames,
                       workers |-> [w \in 1..ChunkCount(Len(frames), ChunkSize) |->
                                       [pc |-> "ready", next |-> 0, st |-> "Ok"]],
                       array   |-> [k \in DOMAIN frames |-> DriverZero(op)],
                       writers |-> [k \in DOMAIN frames |-> {}]]
    /\ UNCHANGED <<file, pos, rest>>

\* worker w decodes the next frame of its slice into the next row of its chunk
WorkerStep(w) ==
    /\ par.phase = "running"
    /\ par.workers[w].pc \in {"ready", "running"}
    /\ LET n     == Len(par.frames)
           slice == FrameSlice(w - 1, n, ChunkSize)
           chunk == ArrayChunk(w - 1, n, ChunkSize)
           len   == Min(Len(slice), Len(chunk))
           j     == par.workers[w].next + 1
           k     == DriverItem(par.op, file[par.frames[slice[j]] + 1])
       IN  IF j > len
           THEN par' = [par EXCEPT !.workers[w].pc = "done"]
           ELSE IF k.st = "Ok"
           THEN par' = [par EXCEPT !.workers[w].next = j,
                                   !.workers[w].pc = IF j = len THEN "done" ELSE "running",
                                   !.array[chunk[j]] = k.out,
                                   !.writers[chunk[j]] = @ \cup {w}]
           ELSE par' = [par EXCEPT !.workers[w].pc = "done", !.workers[w].st = k.st]
    /\ UNCHANGED <<file, pos, ret, rest>>

\* try_for_each stops handing out chunks once a chunk operation has failed
WorkerSkip(w) ==
    /\ par.phase = "running"
    /\ par.workers[w].pc = "ready"
    /\ \E v \in DOMAIN par.workers :
           par.workers[v].pc = "done" /\ par.workers[v].st = "Err"
    /\ par' = [par EXCEPT !.workers[w].pc = "skipped"]
    /\ UNCHANGED <<file, pos, ret, rest>>

\* the result of try_for_each(..)? once no chunk is running, from the
\* outcomes sts of the chunks that ran
JoinLastChunk(sts, array) ==
    IF sts[Len(sts)] = "Ok" THEN ROk(array)
    ELSE IF sts[Len(sts)] = "Err" THEN RErr("IOError") ELSE RPanic

JoinResult(sts, array) ==
    IF \E w \in DOMAIN sts : sts[w] = "Panic" THEN RPanic
    ELSE IF \E w \in DOMAIN sts : sts[w] = "Err" THEN RErr("IOError")
    ELSE ROk(array)

DriverJoin ==
    /\ par.phase = "running"
    /\ \A w \in DOMAIN par.workers : par.workers[w].pc \in {"done", "skipped"}
    /\ LET r == JoinResult([w \in DOMAIN par.workers |-> par.workers[w].st], par.array)
       IN  ret' = [ret EXCEPT !.st = r.st, !.err = r.err, !.out = r.out]
    /\ par' = [par EXCEPT !.phase = "joined"]
    /\ UNCHANGED <<file, pos, rest>>

\* the caller takes the outcome of the request
DriverTake ==
    /\ ret.op # "none"
    /\ par.phase # "running"
    /\ ret' = NoCall
    /\ par' = NoPar
    /\ UNCHANGED <<file, pos, rest>>

DriverNext ==
    \/ DriverTake
    \/ Idle /\ \E op \in DriverOps, frames \in DriverLists \cup {<<NumFrames>>} :
                   DriverStart(op, frames)
    \/ \E w \in DOMAIN par.workers : WorkerStep(w)
    \/ \E w \in DOMAIN par.workers : WorkerSkip(w)
    \/ DriverJoin

DriverSpec == DriverInit /\ [][DriverNext]_vars

(***************************************************************************)
(* The converter command: bin/siff_to_tiff.rs                              *)
(***************************************************************************)
\* argv[0] is chosen by whoever starts the process
Programs == {"siff_to_tiff", "-m", "-o"}
Words == {"a.siff", "-m", "OME", "-o"}

CommandLines ==
    {<<p>> \o w : p \in Programs, w \in UNION {[1..n -> Words] : n \in 0..MaxArgs}}

\* args.iter().next(): a fresh iterator over args gives its first element
iter_next(args) == IF Len(args) = 0 THEN Null ELSE args[1]

\* TiffMode::from_string_slice(str) is Ok
from_string_slice(str) == str \in {"ScanImage", "OME"}

ConverterInit ==
    /\ file = <<>>
    /\ pos = 0
    /\ ret = NoCall
    /\ par = NoPar
    /\ walk = NoWalk
    /\ scan = NoScan
    /\ cli \in {[pc |-> "start", args |-> a, mode |-> Null, save_path |-> Null,
                 calls |-> 0, status |-> "running"] : a \in CommandLines}

\* a panic ends the process with a nonzero status
CliPanic == cli' = [cli EXCEPT !.pc = "exited", !.status = "failure"]

\* main up to the loop: fewer than two arguments is a usage panic
CliStart ==
    /\ cli.pc = "start"
    /\ IF Len(cli.args) < 2 THEN CliPanic
       ELSE cli' = [cli EXCEPT !.pc = "parsing"]
    /\ UNCHANGED <<file, pos, ret, par, walk, scan>>

\* one evaluation of `while let Some(arg) = args.iter().next()` with the
\* loop body, or, once it gives None, the conversion and the end of main;
\* File::create of the conversion succeeds or fails
CliParse ==
    /\ cli.pc = "parsing"
    /\ LET arg == iter_next(cli.args)
       IN  IF arg = Null
           THEN \E created \in BOOLEAN :
                    LET m == IF cli.mode = Null THEN "ScanImage" ELSE cli.mode
                    IN  IF ~from_string_slice(m) THEN CliPanic
                        ELSE cli' = [cli EXCEPT !.pc = "exited", !.calls = @ + 1,
                                         !.status = IF created THEN "success"
                                                    ELSE "failure"]
           ELSE IF arg = "-m"
           THEN IF iter_next(cli.args) = Null THEN CliPanic
                ELSE cli' = [cli EXCEPT !.mode = iter_next(cli.args)]
           ELSE IF arg = "-o"
           THEN IF iter_next(cli.args) = Null THEN CliPanic
                ELSE cli' = [cli EXCEPT !.save_path = iter_next(cli.args)]
           ELSE cli' = cli
    /\ UNCHANGED <<file, pos, ret, par, walk, scan>>

ConverterNext ==
    \/ CliStart
    \/ CliParse

ConverterSpec == ConverterInit /\ [][ConverterNext]_vars

\* the process is scheduled for as long as it can take a step
ConverterLive == ConverterSpec /\ WF_vars(ConverterNext)

(***************************************************************************)
(* The directory walk of SiffReader::open: tiff/ifd.rs, siffreader.rs      *)
(* A file holds directories at the offsets 1..NumDirs.  first is the       *)
(* pointer of the header, next[o] the next pointer stored in directory o   *)
(* (0 ends the chain), and bad the directories that cannot be read: the    *)
(* seek to them or the parse of their tag table fails.                     *)
(***************************************************************************)
DirOffsets == 1..NumDirs

Chains == [first : 0..NumDirs, next : [DirOffsets -> 0..NumDirs],
           bad : SUBSET DirOffsets]

\* a walk is given up after MaxWalk records; a chain without a pointer back
\* to an earlier directory has at most NumDirs
MaxWalk == NumDirs + 2

\* IFDIterator::new(reader, first_ifd), about to be collected by open
WalkInit ==
    /\ file = <<>>
    /\ pos = 0
    /\ ret = NoCall
    /\ par = NoPar
    /\ cli = NoCli
    /\ scan = NoScan
    /\ walk \in {[pc |-> "walking", chain |-> c, to_next |-> c.first, ifds |-> <<>>,
                  st |-> "none", num_frames |-> 0] : c \in Chains}

\* IFDIterator::next, called by collect: Some(ifd) extends the vector, None
\* ends the collection and open returns Ok with the records it has
IterNext ==
    /\ walk.pc = "walking"
    /\ Len(walk.ifds) < MaxWalk
    /\ IF walk.to_next = 0 \/ walk.to_next \in walk.chain.bad
       THEN walk' = [walk EXCEPT !.pc = "opened", !.st = "Ok",
                                 !.num_frames = Len(walk.ifds)]
       ELSE walk' = [walk EXCEPT !.ifds = Append(@, walk.to_next),
                                 !.to_next = walk.chain.next[walk.to_next]]
    /\ UNCHANGED <<file, pos, ret, par, cli, scan>>

\* the reader is dropped
CloseReader ==
    /\ walk.pc = "opened"
    /\ walk' = [walk EXCEPT !.pc = "closed"]
    /\ UNCHANGED <<file, pos, ret, par, cli, scan>>

WalkNext ==
    \/ IterNext
    \/ CloseReader

WalkSpec == WalkInit /\ [][WalkNext]_vars

\* open runs on its caller's thread, which is scheduled while it can step
WalkLive == WalkSpec /\ WF_vars(IterNext)

(***************************************************************************)
(* The photon loop of one kernel call, photon by photon.  The strip holds  *)
(* photons that all land on the same cell of the output (one pixel of an   *)
(* image, one voxel of a tau volume, one bin of a histogram); cell is that *)
(* cell of the output, zero when the call starts.                          *)
(***************************************************************************)
ScanKernels == {"load_array_raw_siff", "load_tau_d_raw",
                "load_histogram_uncompressed", "load_histogram_compressed"}

\* the images and the tau volume are arrays of u16, the histogram of u64
U16Kernels == {"load_array_raw_siff", "load_tau_d_raw"}

\* the longest strip scanned: one photon more than a u16 cell can count
MaxScan == U16Mod + 1

ScanInit ==
    /\ file = <<>>
    /\ pos = 0
    /\ ret = NoCall
    /\ par = NoPar
    /\ cli = NoCli
    /\ walk = NoWalk
    /\ scan \in {[pc |-> "scanning", kernel |-> k, i |-> 0, cell |-> 0, prev |-> 0] :
                  k \in ScanKernels}

\* the closure of the kernel on the next photon: array[..] += 1.  On a u16
\* cell that holds 65535 the addition overflows: a build with overflow
\* checks panics, a build without them wraps to 0.  A u64 bin cannot
\* overflow within a strip.
ScanStep ==
    /\ scan.pc = "scanning"
    /\ scan.i < MaxScan
    /\ IF scan.kernel \in U16Kernels /\ scan.cell + 1 = U16Mod
       THEN \E overflow_checks \in BOOLEAN :
                IF overflow_checks
                THEN scan' = [scan EXCEPT !.pc = "panicked", !.prev = scan.cell]
                ELSE scan' = [scan EXCEPT !.i = @ + 1, !.prev = scan.cell, !.cell = 0]
       ELSE scan' = [scan EXCEPT !.i = @ + 1, !.prev = scan.cell, !.cell = @ + 1]
    /\ UNCHANGED <<file, pos, ret, par, cli, walk>>

\* the strip had scan.i photons: the kernel returns Ok
ScanEnd ==
    /\ scan.pc = "scanning"
    /\ scan' = [scan EXCEPT !.pc = "returned", !.prev = scan.cell]
    /\ UNCHANGED <<file, pos, ret, par, cli, walk>>

ScanNext ==
    \/ ScanStep
    \/ ScanEnd

ScanSpec == ScanInit /\ [][ScanNext]_vars

(***************************************************************************)
(* The histogram kernels on histograms of any length                       *)
(***************************************************************************)
\* arrival times of the photons of a strip: small ones, and the largest u16
HistTaus == {0, 1, NumTauBins, U16Mod - 1}

\* histogram lengths: small ones, and the lengths around the u16 range
HistLens == {1, NumTauBins, U16Mod - 1, U16Mod, U16Mod + 1}

\* frames with up to MaxPhotons photons on pixel (0, 0)
HistFrames ==
    [tag : {RAW, COMPRESSED},
     photons : {[i \in DOMAIN ts |-> [y |-> 0, x |-> 0, tau |-> ts[i]]] :
                   ts \in UNION {[1..n -> HistTaus] : n \in 0..MaxPhotons}},
     slack : {0}, trunc : {FALSE}]

HistInit ==
    /\ file \in {<<fr>> : fr \in HistFrames}
    /\ pos = StripOffsets
    /\ ret = NoCall
    /\ par = NoPar
    /\ RestIdle

\* the kernel of the frame's format is called on a histogram of len bins
\* that all hold fill
CallHistogramKernel(len, fill) ==
    LET before == [t \in 0..(len - 1) |-> fill]
        k == IF file[1].tag = RAW
             THEN load_histogram_uncompressed(file[1], pos, before)
             ELSE load_histogram_compressed(file[1], pos, before)
    IN  /\ ret' = [NoCall EXCEPT !.op = IF file[1].tag = RAW
                                       THEN "load_histogram_uncompressed"
                                       ELSE "load_histogram_compressed",
                                 !.pre = len, !.shift = <<fill, fill>>,
                                 !.st = k.st, !.out = k.out]
        /\ UNCHANGED <<file, pos, par, rest>>

HistNext ==
    \/ TakeResult
    \/ Idle /\ \E len \in HistLens, fill \in {0, 1} : CallHistogramKernel(len, fill)

HistSpec == HistInit /\ [][HistNext]_vars

(***************************************************************************)
(* The RAW kernels on a strip and on a permutation of its photon words     *)
(***************************************************************************)
\* photon words: the first or the last pixel, with an arrival time inside
\* or outside the histogram
OrderWords ==
    [y : {0, FrameH - 1}, x : {0, FrameW - 1}, tau : {0, NumTauBins}]

\* RAW strips of up to MaxPhotons + 1 words in any order
OrderFrames ==
    [tag : {RAW},
     photons : UNION {[1..n -> OrderWords] : n \in 0..(MaxPhotons + 1)},
     slack : {0}, trunc : {FALSE}]

WordOrders(n) ==
    {p \in [1..n -> 1..n] : \A i, j \in 1..n : p[i] = p[j] => i = j}

Permuted(fr, p) == [fr EXCEPT !.photons = [i \in DOMAIN p |-> fr.photons[p[i]]]]

OrderKernels == {"load_array_raw_siff", "load_histogram_uncompressed",
                 "load_tau_d_raw", "sum_mask_raw_siff"}

OrderMasks == {PixelMask(<<0, 0>>), RowMask(FrameH - 1)}

\* the RAW kernel op on the strip of fr, entered at the strip
RawKernel(op, fr, mask) ==
    IF op = "load_array_raw_siff" THEN load_array_raw_siff(fr, StripOffsets)
    ELSE IF op = "load_histogram_uncompressed"
    THEN load_histogram_uncompressed(fr, StripOffsets, ZeroHistogram)
    ELSE IF op = "load_tau_d_raw" THEN load_tau_d_raw(fr, StripOffsets)
    ELSE sum_mask_raw_siff(fr, StripOffsets, mask)

OrderInit ==
    /\ file \in {<<fr>> : fr \in OrderFrames}
    /\ pos = StripOffsets
    /\ ret = NoCall
    /\ par = NoPar
    /\ RestIdle

\* the kernel op runs on the strip of the file with its words in the order p
CallOnPermutation(op, mask, p) ==
    LET k == RawKernel(op, Permuted(file[1], p), mask)
    IN  /\ ret' = [NoCall EXCEPT !.op = op, !.mask = mask, !.frames = p,
                                 !.pre = pos, !.st = k.st, !.out = k.out]
        /\ UNCHANGED <<file, pos, par, rest>>

OrderNext ==
    \/ TakeResult
    \/ Idle /\ \E op \in OrderKernels, mask \in OrderMasks,
                   p \in WordOrders(Len(file[1].photons)) :
                   /\ op # "sum_mask_raw_siff" => mask = PixelMask(<<0, 0>>)
                   /\ CallOnPermutation(op, mask, p)

OrderSpec == OrderInit /\ [][OrderNext]_vars

(***************************************************************************)
(* The arrival cursor of the compressed kernels, pixel by pixel            *)
(***************************************************************************)
CursorKernels == {"load_flim_intensity_empirical_compressed",
                  "load_tau_d_compressed",
                  "load_flim_intensity_phasor_compressed",
                  "sum_mask_empirical_intensity_compressed",
                  "sum_masks_empirical_intensity_compressed"}

\* the multi-mask kernel scans the pixels once for every mask (two masks
\* here), the other kernels scan them once
Passes(kernel) == IF kernel = "sum_masks_empirical_intensity_compressed" THEN 2 ELSE 1

\* the pixel at place i of the scan order
PixelAt(i) == CHOOSE px \in Pixels : PxIndex(px) = i

advance_pointer_by_one(pointer, intensity) == pointer + 1

\* arrival_time_pointer += *intensity as usize
advance_pointer(pointer, intensity) == pointer + intensity

CursorInit ==
    /\ file \in {<<fr>> : fr \in {f \in Frames : f.tag = COMPRESSED}}
    /\ pos = StripOffsets
    /\ ret = NoCall
    /\ par = NoPar
    /\ cli = NoCli
    /\ walk = NoWalk
    /\ scan \in {[pc |-> "cursor", kernel |-> k, pass |-> 1, i |-> 0,
                   pointer |-> 0, read |-> <<>>] : k \in CursorKernels}

\* the closure of the kernel on the next pixel: the slice
\* arrival_times[pointer .. pointer + intensity] is read (a slice that ends
\* behind the slab panics), then the pointer moves on by the count
CursorStep ==
    /\ scan.pc = "cursor"
    /\ scan.i < NumPixels
    /\ LET intensity == IntensitySlab(file[1])[PixelAt(scan.i)]
           arrival_times == ArrivalSlab(file[1])
       IN  IF scan.pointer + intensity > Len(arrival_times)
           THEN scan' = [scan EXCEPT !.pc = "panicked"]
           ELSE scan' = [scan EXCEPT
                            !.i = @ + 1,
                            !.read = Append(@, SubSeq(arrival_times, scan.pointer + 1,
                                                      scan.pointer + intensity)),
                            !.pointer = advance_pointer(@, intensity)]
    /\ UNCHANGED <<file, pos, ret, par, cli, walk>>

\* the next mask of the multi-mask kernel: let mut lifetime_pointer = 0
CursorNextPass ==
    /\ scan.pc = "cursor"
    /\ scan.i = NumPixels
    /\ scan.pass < Passes(scan.kernel)
    /\ scan' = [scan EXCEPT !.pass = @ + 1, !.i = 0, !.pointer = 0, !.read = <<>>]
    /\ UNCHANGED <<file, pos, ret, par, cli, walk>>

CursorEnd ==
    /\ scan.pc = "cursor"
    /\ scan.i = NumPixels
    /\ scan.pass = Passes(scan.kernel)
    /\ scan' = [scan EXCEPT !.pc = "returned"]
    /\ UNCHANGED <<file, pos, ret, par, cli, walk>>

CursorNext ==
    \/ CursorStep
    \/ CursorNextPass
    \/ CursorEnd

CursorSpec == CursorInit /\ [][CursorNext]_vars

(***************************************************************************)
(* The masked compressed reductions on arrival times of any u16 value      *)
(***************************************************************************)
LargeTaus == {1, U16Mod - 1}

\* well-formed COMPRESSED frames whose arrival times are small or large
LargeTauFrames ==
    {[tag     |-> COMPRESSED,
      photons |-> [i \in DOMAIN ps |-> [y |-> ps[i][1], x |-> ps[i][2], tau |-> ts[i]]],
      slack   |-> 0,
      trunc   |-> FALSE] : ps \in PixelStreams, ts \in [1..MaxPhotons -> LargeTaus]}

LargeTauStacks == {<<a, RowMask(0)>> : a \in StackMasks}

LargeTauInit ==
    /\ file \in {<<fr>> : fr \in LargeTauFrames}
    /\ pos = StripOffsets
    /\ ret = NoCall
    /\ par = NoPar
    /\ RestIdle

\* sum::<u16>() is evaluated for every pixel, masked or not, before it is
\* multiplied by the mask bit: in a build with overflow checks the kernel
\* panics as soon as the arrival times of one pixel add up to 2^16 or more
PixelSumOverflows(fr) ==
    \E px \in Pixels :
        sum_u16_overflows(PixelArrivals(IntensitySlab(fr), ArrivalSlab(fr), px))

KernelInBuild(k, fr, overflow_checks) ==
    IF k.st = "Ok" /\ overflow_checks /\ PixelSumOverflows(fr) THEN KPanic(k.pos) ELSE k

CallSumMaskCompressed(mask, overflow_checks) ==
    LET k == KernelInBuild(sum_mask_empirical_intensity_compressed(file[1], pos, mask),
                           file[1], overflow_checks)
    IN  /\ ret' = [NoCall EXCEPT !.op = "sum_mask_empirical_intensity_compressed",
                                 !.mask = mask, !.pre = pos, !.st = k.st, !.out = k.out]
        /\ UNCHANGED <<file, pos, par, rest>>

CallSumMasksCompressed(masks, overflow_checks) ==
    LET k == KernelInBuild(sum_masks_empirical_intensity_compressed(file[1], pos, masks),
                           file[1], overflow_checks)
    IN  /\ ret' = [NoCall EXCEPT !.op = "sum_masks_empirical_intensity_compressed",
                                 !.mask = masks, !.pre = pos, !.st = k.st, !.out = k.out]
        /\ UNCHANGED <<file, pos, par, rest>>

LargeTauNext ==
    \/ TakeResult
    \/ Idle /\ \E mask \in StackMasks, overflow_checks \in BOOLEAN :
                   CallSumMaskCompressed(mask, overflow_checks)
    \/ Idle /\ \E masks \in LargeTauStacks, overflow_checks \in BOOLEAN :
                   CallSumMasksCompressed(masks, overflow_checks)

LargeTauSpec == LargeTauInit /\ [][LargeTauNext]_vars

(***************************************************************************)
(* Requests to a reader whose frames need not share one shape.  walk holds *)
(* the fields of the reader that open has built: the dimensions of every   *)
(* directory and _image_dims, the shape cached when all of them agree.     *)
(***************************************************************************)
Shapes == {<<FrameH, FrameW>>, <<FrameW, FrameH>>}

\* Option<Dimensions>, and the panic of the code that computes one
SomeDims(d) == [st |-> "Some", dims |-> d]
NoDims == [st |-> "None", dims |-> <<0, 0>>]
DimsPanic == [st |-> "Panic", dims |-> <<0, 0>>]

\* the shape cached at open: the shared (height, width) if all records agree
dimensions_consistent(ifd_dims) ==
    IF \A i \in DOMAIN ifd_dims : ifd_dims[i] = ifd_dims[1]
    THEN SomeDims(ifd_dims[1])
    ELSE NoDims

Readers ==
    {[pc |-> "reader", ifd_dims |-> ds, image_dims |-> dimensions_consistent(ds)] :
        ds \in [1..NumFrames -> Shapes]}

\* _check_shared_shape(frames, ifds): ifds[frames[0]] panics on an empty list
check_shared_shape(frames, ifd_dims) ==
    IF Len(frames) = 0 THEN DimsPanic
    ELSE IF \A i \in DOMAIN frames : ifd_dims[frames[i] + 1] = ifd_dims[frames[1] + 1]
    THEN SomeDims(ifd_dims[frames[1] + 1])
    ELSE NoDims

\* self._image_dims.clone().or_else(|| _check_shared_shape(frames, &self._ifds))
array_dims(reader, frames) ==
    IF reader.image_dims.st = "Some" THEN reader.image_dims
    ELSE check_shared_shape(frames, reader.ifd_dims)

\* the first two checks of a request that needs a shape, then the rest of the
\* request (the outcomes in rs)
shape_checked(reader, frames, rs) ==
    IF \E i \in DOMAIN frames : frames[i] >= Len(reader.ifd_dims)
    THEN {RErr("IncorrectFrames")}
    ELSE IF array_dims(reader, frames).st = "Panic" THEN {RPanic}
    ELSE IF array_dims(reader, frames).st = "None" THEN {RErr("NoConsistentDimensions")}
    ELSE rs

ShapeInit ==
    /\ file \in [1..NumFrames -> ListFrames]
    /\ pos = 0
    /\ ret = NoCall
    /\ par = NoPar
    /\ cli = NoCli
    /\ scan = NoScan
    /\ walk \in Readers

\* the empty list, and the lists of ListSpec
ShapeLists == {<<>>} \cup FrameLists

\* the kernels are modelled for frames of FrameH rows and FrameW columns:
\* a request is made unless the shape it settles on is the other one
Modelled(frames) ==
    IF \E i \in DOMAIN frames : frames[i] >= NumFrames THEN TRUE
    ELSE array_dims(walk, frames) \in {DimsPanic, NoDims, SomeDims(<<FrameH, FrameW>>)}

ShapedRequest(op, frames, registration, roi, rs) ==
    /\ Modelled(frames)
    /\ \E r \in shape_checked(walk, frames, rs) :
           RequestReturns(op, frames, registration, roi, r)

ShapeNext ==
    \/ TakeResult
    \/ Idle /\ \E frames \in ShapeLists, reg \in VolumeRegistrations :
                   ShapedRequest("get_frames_intensity", frames, reg, ZeroMask,
                                 {get_frames_intensity(file, frames, reg)})
    \/ Idle /\ \E frames \in ShapeLists, reg \in VolumeRegistrations :
                   ShapedRequest("get_frames_flim", frames, reg, ZeroMask,
                                 {get_frames_flim(file, frames, reg)})
    \/ Idle /\ \E frames \in ShapeLists, reg \in VolumeRegistrations,
                   roi \in {PixelMask(<<0, 0>>), TransposedMask} :
                   ShapedRequest("sum_roi_flat", frames, reg, roi,
                                 {sum_roi_flat(file, roi, frames, reg)})
    \/ Idle /\ \E frames \in ShapeLists, reg \in VolumeRegistrations,
                   roi \in {<<PixelMask(<<0, 0>>), ZeroMask>>, <<TransposedMask>>} :
                   ShapedRequest("sum_roi_volume", frames, reg, roi,
                                 sum_roi_volume(file, roi, frames, reg))
    \/ Idle /\ \E frames \in ShapeLists : GetHistogram(frames)

ShapeSpec == ShapeInit /\ [][ShapeNext]_vars

(***************************************************************************)
(* Properties of the frame dispatchers (DispatchSpec)                      *)
(***************************************************************************)
DispatcherOps == {"load_array", "load_array_registered", "load_histogram",
                  "load_flim_empirical_and_intensity_arrays",
                  "load_flim_empirical_and_intensity_arrays_registered",
                  "load_array_tau_d"}

\* C1: when a frame dispatcher returns Ok, the reader is at the position it
\* had immediately before the call, whatever that position was, for RAW and
\* for COMPRESSED frames.
C1_PositionRestoredOnOk ==
    (ret.op \in DispatcherOps /\ ret.st = "Ok") => pos = ret.pre

\* a COMPRESSED frame with photons was loaded with the reader off the strip
C1_Witness ==
    /\ ret.op = "load_histogram"
    /\ ret.st = "Ok"
    /\ file[1].tag = COMPRESSED
    /\ Len(file[1].photons) > 0
    /\ ret.pre # StripOffsets
    /\ pos = ret.pre

\* C2: when a frame dispatcher returns Err (short read, slice-cast failure
\* or invalid Siff tag), the reader is at the position it had immediately
\* before the call.
C2_PositionRestoredOnErr ==
    (ret.op \in DispatcherOps /\ ret.st = "Err") => pos = ret.pre

(***************************************************************************)
(* Properties of requests with frame lists (ListSpec)                      *)
(***************************************************************************)
RegistrationOps == {"get_frames_intensity", "get_frames_flim", "sum_roi_flat"}

FrameListOps == RegistrationOps \cup TimestampGetters
                \cup {"get_histogram", "get_frame_metadata", "get_appended_text"}

\* the last request passed the checks made before its table is looked at
ReachedRegistrationCheck ==
    /\ ret.op \in RegistrationOps
    /\ \A i \in DOMAIN ret.frames : ret.frames[i] < Len(file)
    /\ DOMAIN ret.mask = Pixels

TableMissesFrame ==
    /\ ret.reg.some
    /\ DOMAIN ret.reg.table # {}
    /\ \E i \in DOMAIN ret.frames : ret.frames[i] \notin DOMAIN ret.reg.table

UsesNoTable == ~ret.reg.some \/ DOMAIN ret.reg.table = {}

\* what the last request's per-frame call yields for frame fr without and
\* with a shift
UnregisteredRow(fr) ==
    IF ret.op = "get_frames_intensity" THEN load_array(fr, 0)
    ELSE IF ret.op = "get_frames_flim" THEN load_flim_empirical_and_intensity_arrays(fr, 0)
    ELSE sum_mask(fr, 0, ret.mask)

RegisteredRow(fr, sh) ==
    IF ret.op = "get_frames_intensity" THEN load_array_registered(fr, 0, sh)
    ELSE IF ret.op = "get_frames_flim"
    THEN load_flim_empirical_and_intensity_arrays_registered(fr, 0, sh)
    ELSE sum_mask_registered(fr, 0, ret.mask, sh)

\* C3: a request that reaches the registration check is rejected with
\* RegistrationFramesMissing exactly when its table is non-empty and lacks a
\* requested frame; with no table or an empty one it yields the unregistered
\* rows; with a table that has every requested frame (and any other keys) it
\* yields the rows registered by the table's shifts.
C3_RegistrationAcceptance ==
    ReachedRegistrationCheck =>
        /\ (ret.st = "Err" /\ ret.err = "RegistrationFramesMissing") <=> TableMissesFrame
        /\ ret.st = "Err" <=> TableMissesFrame
        /\ UsesNoTable =>
               /\ ret.st = "Ok"
               /\ \A i \in DOMAIN ret.frames :
                      ret.out[i] = UnregisteredRow(file[ret.frames[i] + 1]).out
        /\ (~UsesNoTable /\ ~TableMissesFrame) =>
               /\ ret.st = "Ok"
               /\ \A i \in DOMAIN ret.frames :
                      ret.out[i] = RegisteredRow(file[ret.frames[i] + 1],
                                                 ret.reg.table[ret.frames[i]]).out

\* a table with a key that was not requested registered a frame, and the
\* registered image differs from the unregistered one
C3_Witness ==
    /\ ret.op = "get_frames_intensity"
    /\ ret.st = "Ok"
    /\ ret.reg.some
    /\ \E k \in DOMAIN ret.reg.table : \A i \in DOMAIN ret.frames : ret.frames[i] # k
    /\ ret.out[1] # load_array(file[ret.frames[1] + 1], 0).out

\* C4: every request with a frame list returns the error IncorrectFrames
\* when a requested frame number is not below the number of frames.
C4_OutOfBoundsRejected ==
    (ret.op \in FrameListOps /\ \E i \in DOMAIN ret.frames : ret.frames[i] >= Len(file))
        => (ret.st = "Err" /\ ret.err = "IncorrectFrames")

(***************************************************************************)
(* Properties of requests about one frame (FrameSpec)                      *)
(***************************************************************************)
\* get_frames_intensity of the last request's frames, without registration
Unregistered == get_frames_intensity(file, ret.frames, NoRegistration)

\* C5: sum_roi_flat(R, {f}, None)[0] is the sum of
\* get_frames_intensity({f}, None)[0, y, x] over the pixels with R[y, x].
C5_MaskedSumIsSumOfMaskedImage ==
    (ret.op = "sum_roi_flat" /\ ~ret.reg.some) =>
        /\ ret.st = "Ok"
        /\ Unregistered.st = "Ok"
        /\ ret.out[1] = SumOver(Unregistered.out[1], {px \in Pixels : ret.mask[px]})

\* a mask kept some photons of a COMPRESSED frame and left others out
C5_Witness ==
    /\ ret.op = "sum_roi_flat"
    /\ ~ret.reg.some
    /\ ret.st = "Ok"
    /\ file[1].tag = COMPRESSED
    /\ ret.out[1] > 0
    /\ ret.out[1] < Len(file[1].photons)

\* C6: the bins of get_histogram({f}) add up to the pixels of
\* get_frames_intensity({f}, None), whatever the tau values of the frame.
C6_HistogramTotalIsPhotonCount ==
    (ret.op = "get_histogram" /\ ret.st = "Ok") =>
        /\ Unregistered.st = "Ok"
        /\ SumOver(ret.out[1], DOMAIN ret.out[1]) = SumOver(Unregistered.out[1], Pixels)

C8_ZeroShiftIsUnregistered ==
    (ret.op = "get_frames_intensity" /\ ret.reg.some /\ ret.reg.table[0] = <<0, 0>>) =>
        /\ ret.st = "Ok"
        /\ Unregistered.st = "Ok"
        /\ ret.out = Unregistered.out

\* a frame with photons in two pixels was requested with the shift (0, 0)
C8_Witness ==
    /\ ret.op = "get_frames_intensity"
    /\ ret.reg.some
    /\ ret.reg.table[0] = <<0, 0>>
    /\ ret.st = "Ok"
    /\ Cardinality({px \in Pixels : ret.out[1][px] > 0}) > 1

C10_MaskedFlimIntensityIsMaskedIntensity ==
    ret.op = "sum_lifetime_intensity_mask_registered" =>
        LET intensity == sum_mask_registered(file[1], ret.pre, ret.mask, ret.shift)
        IN  /\ ret.st = "Ok"
            /\ intensity.st = "Ok"
            /\ ret.out.intensity_sum = intensity.out

\* a COMPRESSED frame was reduced under a shift in y and x, and the mask
\* kept some of its photons and left others out
C10_Witness ==
    /\ ret.op = "sum_lifetime_intensity_mask_registered"
    /\ ret.st = "Ok"
    /\ file[1].tag = COMPRESSED
    /\ ret.shift[1] # 0
    /\ ret.shift[2] # 0
    /\ ret.out.intensity_sum > 0
    /\ ret.out.intensity_sum < Len(file[1].photons)

(***************************************************************************)
(* Properties of the multi-mask reductions (StackSpec)                     *)
(***************************************************************************)
MultiMaskOps == {"sum_lifetime_intensity_masks", "sum_lifetime_intensity_masks_registered"}
SingleMaskOps == {"sum_lifetime_intensity_mask", "sum_lifetime_intensity_mask_registered"}

\* the single-mask reduction of the frame of the last call under mask
SingleReduction(mask) ==
    IF ret.op = "sum_lifetime_intensity_masks"
    THEN sum_lifetime_intensity_mask(file[1], ret.pre, mask)
    ELSE sum_lifetime_intensity_mask_registered(file[1], ret.pre, mask, ret.shift)

\* C11: for every frame and every stack of masks, entry i of the multi-mask
\* reduction (intensity and lifetime) is the single-mask reduction of the
\* same frame under mask i alone.
C11_MultiMaskIsPerMask ==
    ret.op \in MultiMaskOps =>
        /\ ret.st = "Ok"
        /\ \A i \in DOMAIN ret.mask :
               LET single == SingleReduction(ret.mask[i])
               IN  single.st = "Ok" /\ ret.out[i] = single.out

\* a COMPRESSED frame was reduced under a stack of two masks that keep
\* different, non-zero numbers of its photons
C11_Witness ==
    /\ ret.op = "sum_lifetime_intensity_masks"
    /\ ret.st = "Ok"
    /\ file[1].tag = COMPRESSED
    /\ Len(ret.mask) = 2
    /\ ret.out[1].intensity_sum > 0
    /\ ret.out[2].intensity_sum > ret.out[1].intensity_sum

(***************************************************************************)
(* Properties of the masked requests (VolumeSpec)                          *)
(***************************************************************************)
\* the reduction of the frame at request position k under mask, with the
\* registration of the last request
PositionSum(k, mask) ==
    IF ret.reg.some /\ DOMAIN ret.reg.table # {}
    THEN sum_mask_registered(file[ret.frames[k] + 1], 0, mask,
                             ret.reg.table[ret.frames[k]])
    ELSE sum_mask(file[ret.frames[k] + 1], 0, mask)

\* C12: in a successful sum_roi_volume with a mask of P planes, the row of
\* request position k (0-based) is the reduction of frame F[k] under plane
\* k mod P, whatever the chunk that position k falls in.
C12_VolumePlaneIsPositionModPlanes ==
    (ret.op = "sum_roi_volume" /\ ret.st = "Ok") =>
        /\ Len(ret.out) = Len(ret.frames)
        /\ \A k \in DOMAIN ret.frames :
               LET single == PositionSum(k, ret.mask[((k - 1) % Len(ret.mask)) + 1])
               IN  single.st = "Ok" /\ ret.out[k] = single.out

\* a request longer than a chunk, whose second chunk starts at a position
\* that is not a multiple of the number of planes, and where the planes that
\* meet that position with and without the skip give different sums
C12_Witness ==
    /\ ret.op = "sum_roi_volume"
    /\ ret.st = "Ok"
    /\ Len(ret.frames) > ChunkSize
    /\ ChunkSize % Len(ret.mask) # 0
    /\ ret.out[ChunkSize + 1] # PositionSum(ChunkSize + 1, ret.mask[1]).out

\* the mask of the last masked request does not have the frames' shape
MaskMismatched ==
    IF ret.op = "sum_roi_flat" THEN DOMAIN ret.mask # Pixels ELSE ~MaskFits(ret.mask)

\* C16: sum_roi_flat and sum_roi_volume over frames of the file return
\* MismatchedDimensions when the mask's (rows, cols), or the trailing two
\* axes of a volumetric mask, are not (h, w), whatever the frames hold:
\* no frame is read first.
C16_MismatchedMaskRejected ==
    (/\ ret.op \in {"sum_roi_flat", "sum_roi_volume"}
     /\ check_frames_in_bounds(ret.frames, file)
     /\ MaskMismatched) =>
        (ret.st = "Err" /\ ret.err = "MismatchedDimensions")

\* a volumetric request with a transposed mask was rejected although its
\* first frame cannot be decoded
C16_Witness ==
    /\ ret.op = "sum_roi_volume"
    /\ MaskMismatched
    /\ ret.err = "MismatchedDimensions"
    /\ Len(ret.frames) > ChunkSize
    /\ file[ret.frames[1] + 1].trunc

(***************************************************************************)
(* Properties of the parallel driver (DriverSpec)                          *)
(***************************************************************************)
\* the request positions (1-based) of a chunk as a set
Positions(chunk) == {chunk[j] : j \in DOMAIN chunk}

\* C13: the chunks partition the request: chunk i has the request positions
\* i*C .. min((i+1)*C, N) - 1 and the output rows with the same indices, every
\* position lies in exactly one chunk, and at no point of any interleaving
\* has a row been written by a worker other than the one that owns it.
C13_ChunksPartitionTheWork ==
    par.phase # "idle" =>
        LET n == Len(par.frames)
            m == Len(par.workers)
        IN  /\ \A i \in 0..(m - 1) :
                   /\ Positions(FrameSlice(i, n, ChunkSize))
                          = {k \in 1..n : i * ChunkSize < k /\ k <= (i + 1) * ChunkSize}
                   /\ ArrayChunk(i, n, ChunkSize) = FrameSlice(i, n, ChunkSize)
            /\ \A k \in 1..n :
                   Cardinality({i \in 0..(m - 1) :
                                   k \in Positions(FrameSlice(i, n, ChunkSize))}) = 1
            /\ \A k \in 1..n :
                   /\ Cardinality(par.writers[k]) <= 1
                   /\ \A w \in par.writers[k] :
                          k \in Positions(ArrayChunk(w - 1, n, ChunkSize))

\* a request of three chunks, the last one shorter, has been joined with
\* every row written
C13_Witness ==
    /\ par.phase = "joined"
    /\ Len(par.workers) = 3
    /\ Len(par.frames) % ChunkSize # 0
    /\ \A k \in DOMAIN par.writers : par.writers[k] # {}

\* C14: row k of a successful get_frames_intensity is the decode of frame
\* F[k], for every frame list and every interleaving of the workers; the
\* output has one (h, w) row per requested frame and is what one reader
\* decoding F in order produces.
C14_RowsFollowTheRequest ==
    (ret.op = "get_frames_intensity" /\ ret.st = "Ok") =>
        /\ Len(ret.out) = Len(ret.frames)
        /\ \A k \in DOMAIN ret.frames :
               /\ DOMAIN ret.out[k] = Pixels
               /\ ret.out[k] = load_array(file[ret.frames[k] + 1], 0).out
        /\ ret.out = get_frames_intensity(file, ret.frames, NoRegistration).out

\* a successful request of three chunks that names a frame twice, not in
\* ascending order, over frames that decode differently
C14_Witness ==
    /\ ret.op = "get_frames_intensity"
    /\ ret.st = "Ok"
    /\ Len(par.workers) = 3
    /\ \E j, k \in DOMAIN ret.frames :
           j < k /\ ret.frames[j] > ret.frames[k] /\ ret.out[j] # ret.out[k]
    /\ \E j, k \in DOMAIN ret.frames : j # k /\ ret.frames[j] = ret.frames[k]

\* C15: a joined request is Ok only if every chunk operation ran and
\* returned Ok, and it is Err, with no output array, as soon as one chunk
\* operation returned an error.
C15_AnyChunkErrorFailsTheRequest ==
    par.phase = "joined" =>
        /\ ret.st = "Ok" =>
               \A w \in DOMAIN par.workers :
                   par.workers[w].pc = "done" /\ par.workers[w].st = "Ok"
        /\ (\E w \in DOMAIN par.workers : par.workers[w].st = "Err") =>
               (ret.st = "Err" /\ ret.out = Null)

\* a request failed although another worker had already written its rows
C15_Witness ==
    /\ par.phase = "joined"
    /\ ret.st = "Err"
    /\ \E w \in DOMAIN par.workers : par.workers[w].st = "Err"
    /\ \E w \in DOMAIN par.workers :
           par.workers[w].pc = "done" /\ par.workers[w].st = "Ok"
    /\ \E k \in DOMAIN par.writers : par.writers[k] # {}

\* C17: for a frame whose format tag is neither RAW nor COMPRESSED, every
\* frame dispatcher returns an error, the dispatchers built on
\* load_array_from_siff! included.
C17_InvalidTagIsError ==
    (ret.op \in DispatcherOps /\ file[1].tag = InvalidTag) => ret.st = "Err"

\* C18: a photon-requiring frame operation on a frame that has no format
\* tag returns an error value: the call ends with Err and does not abort.
C18_PlainTiffIsUnsupportedError ==
    (ret.op \in DispatcherOps \ {"load_array", "load_array_registered"}
        /\ file[1].tag = NoTag) => ret.st = "Err"

\* the counts of the intensity slab add up to more than the strip_bytes / 2
\* arrival words of the strip
SlabsInconsistent(fr) ==
    SumOver(IntensitySlab(fr), Pixels) > StripByteCounts(fr) \div U16Bytes

\* C19: on a COMPRESSED frame whose intensity slab and arrival slab are
\* inconsistent, the compressed lifetime and tau-volume kernels return a
\* decode error to the caller.
C19_InconsistentSlabsAreDecodeError ==
    (/\ ret.op \in {"load_flim_empirical_and_intensity_arrays",
                    "load_flim_empirical_and_intensity_arrays_registered",
                    "load_array_tau_d"}
     /\ file[1].tag = COMPRESSED
     /\ SlabsInconsistent(file[1])) => ret.st = "Err"

(***************************************************************************)
(* What the masked FLIM reductions return (StackSpec)                      *)
(***************************************************************************)
\* the photons of the frame of the last call that mask keeps, the mask read
\* at the photon's shifted pixel
MaskedPhotons(mask) ==
    {i \in DOMAIN file[1].photons :
        mask[<<(file[1].photons[i].y + ret.shift[1]) % FrameH,
               (file[1].photons[i].x + ret.shift[2]) % FrameW>>]}

MaskedTauSum(mask) ==
    SumOver([i \in DOMAIN file[1].photons |-> file[1].photons[i].tau],
            MaskedPhotons(mask))

\* the f64 quotient q = <<s, n>> has the value v
QuotientIs(q, v) == q[2] # 0 /\ q[1] = v * q[2]

\* the <<mask, accumulators>> pairs of the last call
Reductions ==
    IF ret.op \in MultiMaskOps
    THEN {<<ret.mask[i], ret.out[i]>> : i \in DOMAIN ret.mask}
    ELSE {<<ret.mask, ret.out>>}

C21_ConverterTerminates ==
    <>(cli.pc = "exited" /\ cli.status \in {"success", "failure"})

(***************************************************************************)
(* Properties of the directory walk (WalkSpec, WalkLive)                   *)
(***************************************************************************)
\* the directories that the chain of c reaches from o on: a directory that
\* cannot be read is reached, the ones behind it are not
RECURSIVE ChainFrom(_, _, _)
ChainFrom(c, o, seen) ==
    IF o = 0 \/ o \in seen THEN seen
    ELSE IF o \in c.bad THEN seen \cup {o}
    ELSE ChainFrom(c, c.next[o], seen \cup {o})

ChainDirs(c) == ChainFrom(c, c.first, {})

\* C22: a successful open implies that every directory reachable from the
\* header through non-zero next pointers was parsed into a record, so that
\* num_frames is the length of the chain; a directory that cannot be parsed
\* makes open return an error.
C22_OpenFailsOnBadDirectory ==
    (walk.pc = "opened" /\ walk.st = "Ok") =>
        /\ ChainDirs(walk.chain) \cap walk.chain.bad = {}
        /\ walk.num_frames = Cardinality(ChainDirs(walk.chain))

\* C30: the directory walk of open terminates for every file, and it visits
\* no directory offset twice, whatever the next pointers of the file are.
C30_WalkTerminates ==
    /\ [](\A i, j \in DOMAIN walk.ifds : i # j => walk.ifds[i] # walk.ifds[j])
    /\ <>(walk.pc \in {"opened", "closed"})

(***************************************************************************)
(* Properties of the photon loop (ScanSpec)                                *)
(***************************************************************************)
\* C23: within one decode call that starts from a zeroed output, every
\* intensity cell and every histogram bin is non-decreasing at each photon
\* step, for every number of photons that land on the cell.
C23_CellsNeverDecrease ==
    scan.pc # "none" => scan.cell >= scan.prev

(***************************************************************************)
(* The RAW registered intensity kernel (DispatchSpec)                      *)
(***************************************************************************)
\* the photons of the frame counted at ((y + dy) mod h, (x + dx) mod w),
\* with the non-negative modulo
RolledCounts(fr, shift) ==
    [px \in Pixels |->
        Cardinality({i \in DOMAIN fr.photons :
            <<(fr.photons[i].y + shift[1]) % FrameH,
              (fr.photons[i].x + shift[2]) % FrameW>> = px})]

HistKernels == {"load_histogram_uncompressed", "load_histogram_compressed"}

\* histogram with count(t) added to bin t, for every t of ts
RECURSIVE AddCounts(_, _, _)
AddCounts(histogram, ts, count) ==
    IF ts = {} THEN histogram
    ELSE LET t == CHOOSE t \in ts : TRUE
         IN  AddCounts([histogram EXCEPT ![t] = @ + count[t]], ts \ {t}, count)

\* C25: the histogram kernels increment bin tau once for every photon whose
\* tau is below the histogram length H and leave the histogram untouched
\* for every other photon, for RAW and COMPRESSED strips and every H, the
\* lengths beyond 65535 included.  ret.pre is H and ret.shift[1] the value
\* of every bin before the call.
C25_EveryPhotonBelowLenIsCounted ==
    (ret.op \in HistKernels /\ ret.st = "Ok") =>
        ret.out = AddCounts([t \in 0..(ret.pre - 1) |-> ret.shift[1]],
                            {t \in HistTaus : t < ret.pre},
                            [t \in HistTaus |->
                                Cardinality({i \in DOMAIN file[1].photons :
                                                file[1].photons[i].tau = t})])

(***************************************************************************)
(* Properties of the RAW kernels under reordering (OrderSpec)              *)
(***************************************************************************)
\* C26: for every RAW strip and every permutation of its photon words, the
\* raw intensity, histogram, tau-volume and masked-intensity kernels produce
\* the output that they produce on the original order.
C26_RawKernelsIgnoreWordOrder ==
    ret.op \in OrderKernels =>
        LET original == RawKernel(ret.op, file[1], ret.mask)
        IN  ret.st = original.st /\ ret.out = original.out

\* the tau volume of three words that differ from each other was computed
\* on a permutation that moves every word
C26_Witness ==
    /\ ret.op = "load_tau_d_raw"
    /\ ret.st = "Ok"
    /\ Len(file[1].photons) = 3
    /\ \A i, j \in 1..3 : i # j => file[1].photons[i] # file[1].photons[j]
    /\ \A i \in 1..3 : ret.frames[i] # i

\* the arrival times of the photons of a frame that lie at pixel px, in
\* stream order
TausAt(photons, px) ==
    LET At(ph) == <<ph.y, ph.x>> = px
        sel == SelectSeq(photons, At)
    IN  [k \in DOMAIN sel |-> sel[k].tau]

\* C27: while a compressed kernel scans the pixels, its cursor is the number
\* of photons of the pixels already scanned (the sum of their counts), the
\* arrival times it read for a scanned pixel are exactly the arrival times
\* of the frame's photons at that pixel, the closed form ArrivalPointer
\* agrees with the cursor, no slice panics, and when the scan returns the
\* cursor is the number of photons of the frame (the sum of all counts)
C27_CursorIsSumOfEarlierCounts ==
    scan.pc \in {"cursor", "returned", "panicked"} /\ scan.kernel \in CursorKernels
    => LET photons == file[1].photons
       IN  /\ scan.pc # "panicked"
           /\ scan.pointer = Cardinality({k \in DOMAIN photons :
                                 PxIndex(<<photons[k].y, photons[k].x>>) < scan.i})
           /\ scan.pointer = SumOver(IntensitySlab(file[1]),
                                     {q \in Pixels : PxIndex(q) < scan.i})
           /\ scan.i < NumPixels
              => scan.pointer = ArrivalPointer(IntensitySlab(file[1]), PixelAt(scan.i))
           /\ Len(scan.read) = scan.i
           /\ \A j \in DOMAIN scan.read : scan.read[j] = TausAt(photons, PixelAt(j - 1))
           /\ scan.pc = "returned"
              => /\ scan.i = NumPixels
                 /\ scan.pointer = Len(photons)
                 /\ scan.pointer = SumOver(IntensitySlab(file[1]), Pixels)

\* the second pass of the multi-mask kernel has returned on a frame whose
\* photons lie at two pixels, the first of them not the first pixel scanned
C27_Witness ==
    /\ scan.pc = "returned"
    /\ scan.kernel = "sum_masks_empirical_intensity_compressed"
    /\ scan.pass = 2
    /\ Len(file[1].photons) = 2
    /\ file[1].photons[1].y # file[1].photons[2].y
    /\ file[1].photons[1].tau # file[1].photons[2].tau
    /\ scan.read[1] = <<>>

\* C28: a masked compressed lifetime reduction (one mask or a stack)
\* returns Ok, and what it added to the lifetime accumulator of a mask is,
\* for every masked pixel, the exact integer sum of the pixel's arrival
\* times (not reduced modulo 2^16) and 0 for every other pixel: the
\* numerator of the lifetime is the tau sum of the masked photons
C28_PixelTauSumIsExact ==
    ret.op \in {"sum_mask_empirical_intensity_compressed",
                "sum_masks_empirical_intensity_compressed"}
    => /\ ret.st = "Ok"
       /\ \A r \in (IF ret.op = "sum_masks_empirical_intensity_compressed"
                     THEN {<<ret.mask[i], ret.out[i]>> : i \in DOMAIN ret.mask}
                     ELSE {<<ret.mask, ret.out>>}) :
              r[2].lifetime_sum[1] = MaskedTauSum(r[1])

\* C29: a request with an empty frame list returns Ok with an output whose
\* frame axis has length 0, for get_frames_intensity, get_frames_flim,
\* sum_roi_flat, sum_roi_volume and get_histogram, whether or not the reader
\* has a shape cached at open (a mask of another shape than the cached one
\* is refused and is left aside)
C29_EmptyRequestIsOk ==
    (/\ ret.op \in {"get_frames_intensity", "get_frames_flim", "sum_roi_flat",
                    "sum_roi_volume", "get_histogram"}
     /\ ret.frames = <<>>
     /\ ret.err # "MismatchedDimensions")
    => ret.st = "Ok" /\ Len(ret.out) = 0

====
